---- MODULE Spec2Model ----
(***************************************************************************)
(* Verification model of the R2-Farmer crop-field monitoring client and    *)
(* of the analysis engine it calls (time-series assembly, forecasting,     *)
(* zoning).                                                                *)
(*                                                                         *)
(* Conventions                                                             *)
(*  - a JavaScript value that may be null is a sequence of length <= 1:    *)
(*    Null is <<>>, a present value v is <<v>>;                            *)
(*  - calendar dates are day numbers (days since 1970-01-01), the empty    *)
(*    string of a date input is day 0;                                     *)
(*  - index values are fixed-point integers in units of 1/100;             *)
(*  - the forecast horizon is a fixed-point integer in units of 1/10, so   *)
(*    that a fractional entry of the number input is representable.        *)
(***************************************************************************)
EXTENDS Integers, Sequences, FiniteSets, TLC

VARIABLES
  \* ---- TimeSeriesModal (React state of the component) ----
  selectedGeometry,   \* prop: the geometry the modal was opened for
  startDate,          \* useState('')  then the mount effect
  endDate,
  selectedIndices,    \* useState(['NDVI'])
  chartData,          \* useState(null)
  rawData,            \* useState(null)
  isLoading,          \* useState(false)
  error,              \* useState(null)
  forecastData,       \* useState(null)
  isForecastLoading,  \* useState(false)
  forecastHorizon,    \* useState(30), in tenths of a day
  showForecast,       \* useState(false)
  pendingAnalyses,    \* awaited Promise.all of handleAnalyzeDynamics calls
  pendingForecast,    \* awaited aiService.forecastTimeSeries call
  lastOp,             \* history: the handler that made the last step
  focus,              \* scenario: the inputs the user edits in this session
  \* ---- updateChartWithForecast applied to a forecast response ----
  ucResponse,         \* the forecastResponse argument
  ucIndexName,        \* the indexName argument
  ucChart,            \* Null, then what setChartData received
  \* ---- ForecastEngine: one forecast request ----
  feSeries,           \* series_points: the Historical/Interpolated input
  feHorizon,          \* horizon_days
  feResult,           \* Null, then the result or the error of the request
  \* ---- TimeSeriesAssembler: one series request ----
  asmFetch,           \* per candidate date: the state of its ImageSource call
  asmHistorical,      \* Historical points obtained, in order of completion
  asmSkipped,         \* the dates skipped so far, each with its reason
  asmResult,          \* Null, then the result or the error of the request
  \* ---- ZoningEngine: one zone request ----
  znRaster,           \* the index raster, row by row, in 1/100
  znMask,             \* the validity mask, TRUE where the pixel is valid
  znK,                \* the requested number of zones
  znSeed,             \* the seed: which internal label each cluster gets
  znPhase,            \* "requested", "clustering", "converged", "done"
  znCentroids,        \* per internal label, the centroid as sum and count
  znLabels,           \* per pixel, its internal label (0: not clustered)
  znIter,             \* Lloyd iterations done
  znResult,           \* Null, then the zones or the error of the request
  znRerun,            \* Null, then the outcome of a second run on the same input
  \* ---- FieldZoningTool ----
  fzAnalysisId,       \* prop analysisId (Null: not given)
  fzFieldId,          \* prop fieldId (Null: not given)
  fzToken,            \* localStorage item 'token' (Null: absent)
  numZones,           \* state numZones
  fzLoading,          \* state loading
  fzError,            \* state error
  fzZoneData,         \* state zoneData
  fzPending,          \* Null, or the zones request awaiting its response
  fzRequests,         \* the zones requests sent so far, in order
  \* ---- MapPage, Sidebar and the dashboard widgets ----
  mpSelectedGeometry, \* MapPage state selectedGeometry
  analysisResult,     \* MapPage state analysisResult
  isAnalyzing,        \* MapPage state isAnalyzing
  sbSelectedIndices,  \* Sidebar state selectedIndices
  sbError,            \* Sidebar state error
  anPending,          \* Null, or the Sidebar's analyze request awaiting its response
  dwWidget,           \* Null, or the mounted dashboard widget: its item and state
  anRequests,         \* the analyze requests sent so far, in order
  sbCallbacks,        \* the MapPage callbacks the Sidebar called, in order
  \* ---- AIService: one failed request ----
  aiMethod,           \* the method called
  aiFailure,          \* the axios error its request ends with
  aiOutcome,          \* Null, then how the method ended
  \* ---- MapPage: the context of the AI panel ----
  acResult,           \* the analysis result, with the pixels it was measured on
  acContext,          \* Null, then the analysisContext MapPage builds
  \* ---- ZoneMapLayer and ZoneLegend: the colour of one zone ----
  zcNumZones,         \* zoneData.num_zones, also the legend's numZones
  zcZoneId,           \* the zone_id of a feature and of a legend row
  zcFill,             \* Null, then the fillColor styleZones gives the feature
  zcLegend,           \* Null, then the colour of the legend row
  \* ---- AIReportViewer: one report ----
  mdMarkdown,         \* prop markdown: the lines of the report
  mdHtml,             \* Null, then htmlContent as injected into the page
  \* ---- AIAgronomistPanel ----
  apStatus,           \* 'idle', 'loading', 'success', 'error'
  apError,            \* Null or <<[message, type]>>
  reportData,         \* Null or <<the report response>>
  chatHistory,        \* the messages [role, content]
  currentQuestion,    \* the text of the question input
  isChatLoading,
  apReports,          \* generateReport requests in flight
  apChats,            \* sendChatMessage requests in flight
  \* ---- AuthProvider, the router of App.jsx, localStorage ----
  lsAccessToken,      \* localStorage 'access_token': Null or <<token>>
  auUser,             \* user
  isAuthenticated,
  auLoading,          \* loading
  auError,            \* error
  checkAuthPending,   \* the mount effect awaits /api/v1/auth/me
  loginPending,       \* the await a login call is at ("": none, "login", "me"), and
                      \* whether it was called in a logged-out state
  loginResult,        \* Null or <<what the last login call resolved with>>
  auPath,             \* location.pathname
  auPage,             \* the page the router renders
  auSignedOut         \* a logout or a 401 reload happened and no login was started since

tsVars == <<selectedGeometry, startDate, endDate, selectedIndices, chartData,
            rawData, isLoading, error, forecastData, isForecastLoading,
            forecastHorizon, showForecast, pendingAnalyses, pendingForecast,
            lastOp>>

ucVars == <<ucResponse, ucIndexName, ucChart>>

feVars == <<feSeries, feHorizon, feResult>>

asmVars == <<asmFetch, asmHistorical, asmSkipped, asmResult>>

znVars == <<znRaster, znMask, znK, znSeed, znPhase, znCentroids, znLabels, znIter, znResult>>

zrVars == <<znRerun>>

\* the state of the components introduced after the engines
fzVars == <<fzAnalysisId, fzFieldId, fzToken, numZones, fzLoading, fzError,
           fzZoneData, fzPending, fzRequests>>

mpVars == <<mpSelectedGeometry, analysisResult, isAnalyzing, sbSelectedIndices, sbError,
           anPending, dwWidget, anRequests, sbCallbacks>>

aiVars == <<aiMethod, aiFailure, aiOutcome>>

acVars == <<acResult, acContext>>

zcVars == <<zcNumZones, zcZoneId, zcFill, zcLegend>>

mdVars == <<mdMarkdown, mdHtml>>

apVars == <<apStatus, apError, reportData, chatHistory, currentQuestion, isChatLoading,
           apReports, apChats>>

auVars == <<lsAccessToken, auUser, isAuthenticated, auLoading, auError, checkAuthPending,
           loginPending, loginResult, auPath, auPage, auSignedOut>>

restVars == <<zrVars, fzVars, mpVars, aiVars, acVars, zcVars, mdVars, apVars, auVars>>

vars == <<tsVars, focus, ucVars, feVars, asmVars, znVars, restVars>>

Null == <<>>
Some(v) == <<v>>

(***************************************************************************)
(* Bounds of the model                                                     *)
(***************************************************************************)
\* how many of the index check boxes the modelled user toggles
NumOptionsShown == 2
\* how many handleAnalyzeDynamics calls may be awaiting their responses
MaxPendingAnalyses == 1
\* longest forecast response the modelled server returns
MaxRespLen == 3
\* largest gap, in days, between two points of a ForecastEngine input
MaxStride == 2
\* candidate dates of a series request
NumCandidates == 4
\* days between two candidate dates (the sampling cadence of the request)
AsmCadence == 3
\* ImageSource calls a series request may have in flight
ConcurrencyCap == 2
\* zones requests a FieldZoningTool session sends
MaxZoneRequests == 2
\* optional indices the Sidebar session toggles (the first ones listed)
SidebarExtras == 2
\* analyze requests a session sends
MaxAnalyzeRequests == 2
\* valid pixels of an analysed field
FieldPixels == 3
\* zone counts and zone ids the map layer and the legend are rendered for
MaxShownZones == 6
\* lines of a report
MaxLines == 2
\* messages of a chat after which no further question is asked
MaxChatMessages == 6
\* pixels of an index raster
RasterPixels == 24
\* Lloyd iterations after which the clustering stops
MaxLloydIterations == 8

(***************************************************************************)
(* Program constants                                                       *)
(***************************************************************************)
\* new Date('2015-06-23') as a day number
Sentinel2Start == 16609
\* the "large range" confirmation threshold, in days
LargeRangeDays == 365
\* minimum number of observations handleGenerateForecast accepts
MinHistoryPoints == 10
\* useState(30), in tenths of a day
DefaultHorizon == 300

\* VEGETATION_INDICES_OPTIONS, the value of each option
VEGETATION_INDICES_OPTIONS == <<"NDVI", "EVI", "PSRI", "NBR", "NDSI">>

\* indexConfig.label.split(' - ')[0]: every label starts with its value
ShortName(indexValue) == indexValue

OptionNo(indexValue) ==
  CHOOSE k \in 1..Len(VEGETATION_INDICES_OPTIONS) :
    VEGETATION_INDICES_OPTIONS[k] = indexValue

\* error messages the modal sets
ErrNoGeometry == "select an area on the map"
ErrNoDates == "select a date range"
ErrNoIndex == "select at least one index"
ErrBeforeSentinel == "Sentinel-2 data start on 2015-06-23"
ErrNoData == "no data for the selected period"
ErrSeriesDefault == "error fetching time series data"
ErrLoadFirst == "load the time series first"
ErrInsufficientHistory == "insufficient history: at least 10 observations"
ErrForecastDefault == "error generating the forecast"


(***************************************************************************)
(* Inputs of the TimeSeriesModal model                                     *)
(***************************************************************************)
\* the day the modal is mounted (new Date() in the mount effect)
Today == 20396
\* setMonth(getMonth() - 3) of the mount effect, as days
DefaultRangeDays == 92

\* what the user may leave in the two date inputs (0: emptied)
StartDateInputs == {0, Sentinel2Start - 1, Today - DefaultRangeDays,
                    Today - LargeRangeDays - 1}
EndDateInputs == {0, Today}

\* lengths of the series the time-series endpoint returns; the series of
\* one analysis cover the same dates, whatever the index
SeriesLens == {0, MinHistoryPoints - 1, MinHistoryPoints}

\* the response body of POST /api/v1/analyze/timeseries for one index
SeriesResponse(indexType, n) ==
  [index_type |-> indexType,
   dates |-> [i \in 1..n |-> Today - DefaultRangeDays + 5 * i],
   values |-> [i \in 1..n |-> 20 + ((7 * i + 3 * OptionNo(indexType)) % 50)]]

ProvenanceTags == {"Historical", "Interpolated", "Forecast"}

RECURSIVE SeqsUpTo(_, _)
\* all sequences over S of length at most n
SeqsUpTo(S, n) ==
  IF n = 0 THEN {<<>>}
  ELSE LET shorter == SeqsUpTo(S, n - 1)
       IN shorter \cup {Append(q, x) : q \in {r \in shorter : Len(r) = n - 1},
                                       x \in S}

\* the response body of POST /api/v1/forecast/indices: one point per tag
\* of the sequence, on consecutive days
ForecastResponse(tags) ==
  [forecast |-> [i \in 1..Len(tags) |->
                   [date |-> Today + i, value |-> 40 + i, type |-> tags[i]]],
   metadata |-> [model_type |-> "GradientBoosting"]]

\* the forecast responses the modal receives in the model
ModalForecastResponses ==
  {ForecastResponse(<<"Historical", "Interpolated", "Forecast">>),
   ForecastResponse(<<"Historical", "Forecast", "Forecast">>)}

\* what the user may type into the horizon input (e.target.value); the
\* empty string is what a number input reports for text that is no number
HorizonInputs == {"", "7", "91", "7.5"}

\* Number(e.target.value), in tenths
Number(str) ==
  CASE str = "" -> 0
    [] str = "7" -> 70
    [] str = "91" -> 910
    [] str = "7.5" -> 75

(***************************************************************************)
(* AIService (utils/aiService.js)                                          *)
(***************************************************************************)
MsgUnauthorized == "authorization required"
MsgForbidden == "access denied"
MsgUnavailable == "AI service temporarily unavailable"
MsgServer == "server error, try later"
MsgTimeout == "AI service response timed out, try again"
MsgNetwork == "could not connect to the server"

\* an axios error: response is Null or <<[status, detail]>>, where detail is
\* [kind |-> "none"], [kind |-> "string", text |-> ..] or
\* [kind |-> "object", message |-> .., error_type |-> ..]
AxiosErrors ==
  { [response |-> Null, code |-> "ECONNABORTED", message |-> "timeout of 60000ms exceeded"],
    [response |-> Null, code |-> "ERR_NETWORK", message |-> "Network Error"],
    [response |-> Some([status |-> 422, detail |-> [kind |-> "string", text |-> "horizon out of range"]]),
     code |-> "ERR_BAD_REQUEST", message |-> "Request failed with status code 422"],
    [response |-> Some([status |-> 400, detail |-> [kind |-> "object", message |-> "not enough history",
                                                  error_type |-> "insufficient_history"]]),
     code |-> "ERR_BAD_REQUEST", message |-> "Request failed with status code 400"],
    [response |-> Some([status |-> 503, detail |-> [kind |-> "none"]]),
     code |-> "ERR_BAD_RESPONSE", message |-> "Request failed with status code 503"],
    [response |-> Some([status |-> 404, detail |-> [kind |-> "none"]]),
     code |-> "ERR_BAD_REQUEST", message |-> "Request failed with status code 404"] }

\* a || b on strings
OrElse(a, b) == IF a # "" THEN a ELSE b

\* the Error object _handleError throws
HandleError(err, defaultMessage) ==
  LET plain(msg) == [message |-> msg, errorType |-> Null, statusCode |-> Null]
  IN
  IF err.response # Null /\ err.response[1].detail.kind = "object"
    THEN [message |-> OrElse(err.response[1].detail.message, defaultMessage),
          errorType |-> Some(err.response[1].detail.error_type),
          statusCode |-> Some(err.response[1].status)]
  ELSE IF err.response # Null /\ err.response[1].detail.kind = "string"
    THEN [message |-> err.response[1].detail.text,
          errorType |-> Null,
          statusCode |-> Some(err.response[1].status)]
  ELSE IF err.response # Null /\ err.response[1].status = 401 THEN plain(MsgUnauthorized)
  ELSE IF err.response # Null /\ err.response[1].status = 403 THEN plain(MsgForbidden)
  ELSE IF err.response # Null /\ err.response[1].status = 503 THEN plain(MsgUnavailable)
  ELSE IF err.response # Null /\ err.response[1].status >= 500 THEN plain(MsgServer)
  ELSE IF err.code = "ECONNABORTED"
    THEN [message |-> MsgTimeout, errorType |-> Some("timeout"), statusCode |-> Null]
  ELSE IF err.response = Null THEN plain(MsgNetwork)
  ELSE plain(OrElse(err.message, defaultMessage))

\* the body forecastTimeSeries posts to /api/v1/forecast/indices
ForecastRequest(historicalData, indexName, forecastHorizonDays) ==
  [index_name |-> indexName,
   historical_data |-> historicalData,
   forecast_horizon_days |-> forecastHorizonDays]


(***************************************************************************)
(* TimeSeriesModal (components/TimeSeriesModal.jsx)                        *)
(***************************************************************************)
\* Array.prototype.filter is SelectSeq

Includes(seq, x) == \E i \in 1..Len(seq) : seq[i] = x

\* the state after construction and the mount effect (default dates)
TsInit ==
  /\ selectedGeometry = Some("field")
  /\ startDate = Today - DefaultRangeDays
  /\ endDate = Today
  /\ selectedIndices = <<"NDVI">>
  /\ chartData = Null
  /\ rawData = Null
  /\ isLoading = FALSE
  /\ error = Null
  /\ forecastData = Null
  /\ isForecastLoading = FALSE
  /\ forecastHorizon = DefaultHorizon
  /\ showForecast = FALSE
  /\ pendingAnalyses = <<>>
  /\ pendingForecast = Null
  /\ lastOp = "mount"

\* onChange of the start-date input
SetStartDate ==
  /\ \E d \in StartDateInputs : startDate' = d
  /\ lastOp' = "setStartDate"
  /\ UNCHANGED <<selectedGeometry, endDate, selectedIndices, chartData, rawData,
                 isLoading, error, forecastData, isForecastLoading,
                 forecastHorizon, showForecast, pendingAnalyses, pendingForecast>>

\* onChange of the end-date input
SetEndDate ==
  /\ \E d \in EndDateInputs : endDate' = d
  /\ lastOp' = "setEndDate"
  /\ UNCHANGED <<selectedGeometry, startDate, selectedIndices, chartData, rawData,
                 isLoading, error, forecastData, isForecastLoading,
                 forecastHorizon, showForecast, pendingAnalyses, pendingForecast>>

\* the updater toggleIndex passes to setSelectedIndices
toggleIndexUpdate(prev, indexValue) ==
  IF Includes(prev, indexValue)
    THEN IF Len(prev) = 1 THEN prev
         ELSE SelectSeq(prev, LAMBDA i : i # indexValue)
    ELSE Append(prev, indexValue)

toggleIndex ==
  /\ \E k \in 1..NumOptionsShown :
       selectedIndices' = toggleIndexUpdate(selectedIndices, VEGETATION_INDICES_OPTIONS[k])
  /\ lastOp' = "toggleIndex"
  /\ UNCHANGED <<selectedGeometry, startDate, endDate, chartData, rawData,
                 isLoading, error, forecastData, isForecastLoading,
                 forecastHorizon, showForecast, pendingAnalyses, pendingForecast>>

\* onChange of the horizon input, rendered while chartData && !showForecast
SetForecastHorizon ==
  /\ chartData # Null /\ ~showForecast
  /\ \E str \in HorizonInputs : forecastHorizon' = Number(str)
  /\ lastOp' = "setForecastHorizon"
  /\ UNCHANGED <<selectedGeometry, startDate, endDate, selectedIndices, chartData,
                 rawData, isLoading, error, forecastData, isForecastLoading,
                 showForecast, pendingAnalyses, pendingForecast>>

\* handleAnalyzeDynamics up to its await: the validation, then the requests.
\* confirmed is the user's answer to window.confirm for a range over a year.
AnalyzeDynamicsCall(confirmed) ==
  IF selectedGeometry = Null
    THEN error' = Some(ErrNoGeometry) /\ UNCHANGED <<isLoading, pendingAnalyses>>
  ELSE IF startDate = 0 \/ endDate = 0
    THEN error' = Some(ErrNoDates) /\ UNCHANGED <<isLoading, pendingAnalyses>>
  ELSE IF Len(selectedIndices) = 0
    THEN error' = Some(ErrNoIndex) /\ UNCHANGED <<isLoading, pendingAnalyses>>
  ELSE IF startDate < Sentinel2Start
    THEN error' = Some(ErrBeforeSentinel) /\ UNCHANGED <<isLoading, pendingAnalyses>>
  ELSE IF endDate - startDate > LargeRangeDays /\ ~confirmed
    THEN UNCHANGED <<error, isLoading, pendingAnalyses>>
  ELSE /\ error' = Null
       /\ isLoading' = TRUE
       /\ pendingAnalyses' = Append(pendingAnalyses,
            [indices |-> selectedIndices,
             requests |-> [i \in 1..Len(selectedIndices) |->
                             [geometry |-> selectedGeometry[1],
                              start_date |-> startDate,
                              end_date |-> endDate,
                              index_type |-> selectedIndices[i]]]])

\* click on the analyze button (disabled while isLoading or without geometry)
handleAnalyzeDynamics ==
  /\ ~isLoading /\ selectedGeometry # Null
  /\ Len(pendingAnalyses) < MaxPendingAnalyses
  /\ \E confirmed \in BOOLEAN : AnalyzeDynamicsCall(confirmed)
  /\ lastOp' = "handleAnalyzeDynamics"
  /\ UNCHANGED <<selectedGeometry, startDate, endDate, selectedIndices, chartData,
                 rawData, forecastData, isForecastLoading, forecastHorizon,
                 showForecast, pendingForecast>>

\* click on "return to the original data", rendered while
\* showForecast && forecastData
ReturnToOriginal ==
  /\ showForecast /\ forecastData # Null
  /\ Len(pendingAnalyses) < MaxPendingAnalyses
  /\ showForecast' = FALSE
  /\ forecastData' = Null
  /\ \E confirmed \in BOOLEAN : AnalyzeDynamicsCall(confirmed)
  /\ lastOp' = "returnToOriginal"
  /\ UNCHANGED <<selectedGeometry, startDate, endDate, selectedIndices, chartData,
                 rawData, isForecastLoading, forecastHorizon, pendingForecast>>

RemoveAt(seq, i) == SubSeq(seq, 1, i - 1) \o SubSeq(seq, i + 1, Len(seq))

\* the chart handleAnalyzeDynamics builds from allData; indices is the
\* selectedIndices of the render the handler was called in
AnalysisChart(allData, indices) ==
  [labels |-> allData[1].dates,
   datasets |-> [i \in 1..Len(allData) |->
                   [label |-> ShortName(indices[i]),
                    data |-> allData[i].values,
                    backgroundColor |-> <<"bgColor", indices[i]>>,
                    borderColor |-> <<"color", indices[i]>>]]]

\* handleAnalyzeDynamics after its await, without the empty-response check
AnalysisFulfilledWith_NoEmptyCheck(p, n) ==
  LET call == pendingAnalyses[p]
      allData == [i \in 1..Len(call.indices) |->
                    SeriesResponse(call.requests[i].index_type, n)]
  IN /\ pendingAnalyses' = RemoveAt(pendingAnalyses, p)
     /\ rawData' = Some(allData)
     /\ chartData' = Some(AnalysisChart(allData, call.indices))
     /\ UNCHANGED error
     /\ isLoading' = FALSE
     /\ lastOp' = "analysisFulfilled"
     /\ UNCHANGED <<selectedGeometry, startDate, endDate, selectedIndices,
                    forecastData, isForecastLoading, forecastHorizon, showForecast,
                    pendingForecast>>

\* handleAnalyzeDynamics after its await: the requests of pending call p
\* fulfilled with series of n dates
AnalysisFulfilledWith(p, n) ==
  LET call == pendingAnalyses[p]
      allData == [i \in 1..Len(call.indices) |->
                    SeriesResponse(call.requests[i].index_type, n)]
  IN /\ pendingAnalyses' = RemoveAt(pendingAnalyses, p)
     /\ IF Len(allData) = 0 \/ Len(allData[1].dates) = 0
          THEN /\ error' = Some(ErrNoData)
               /\ UNCHANGED <<rawData, chartData>>
          ELSE /\ rawData' = Some(allData)
               /\ chartData' = Some(AnalysisChart(allData, call.indices))
               /\ UNCHANGED error
     /\ isLoading' = FALSE
     /\ lastOp' = "analysisFulfilled"
     /\ UNCHANGED <<selectedGeometry, startDate, endDate, selectedIndices,
                    forecastData, isForecastLoading, forecastHorizon, showForecast,
                    pendingForecast>>

AnalysisFulfilled ==
  \E p \in 1..Len(pendingAnalyses) : \E n \in SeriesLens : AnalysisFulfilledWith(p, n)

\* err.response?.data?.detail of a failed time-series request ("": none)
SeriesErrorDetails == {"", "Sentinel Hub credentials are not configured"}

\* handleAnalyzeDynamics after its await, a request rejected
AnalysisRejected ==
  /\ \E p \in 1..Len(pendingAnalyses) :
       \E detail \in SeriesErrorDetails :
         /\ pendingAnalyses' = RemoveAt(pendingAnalyses, p)
         /\ error' = Some(OrElse(detail, ErrSeriesDefault))
  /\ isLoading' = FALSE
  /\ lastOp' = "analysisRejected"
  /\ UNCHANGED <<selectedGeometry, startDate, endDate, selectedIndices, chartData,
                 rawData, forecastData, isForecastLoading, forecastHorizon,
                 showForecast, pendingForecast>>

\* historicalData of handleGenerateForecast
HistoricalData(dataToForecast) ==
  [i \in 1..Len(dataToForecast.dates) |->
     [date |-> dataToForecast.dates[i], value |-> dataToForecast.values[i]]]

\* handleGenerateForecast without its minimum-history validation
handleGenerateForecast_NoMinimum ==
  /\ chartData # Null /\ ~showForecast /\ ~isForecastLoading
  /\ IF rawData = Null \/ Len(rawData[1]) = 0 \/ chartData = Null
       THEN /\ error' = Some(ErrLoadFirst)
            /\ UNCHANGED <<isForecastLoading, pendingForecast>>
     ELSE /\ isForecastLoading' = TRUE
          /\ error' = Null
          /\ pendingForecast' = Some(
               [indexToForecast |-> selectedIndices[1],
                request |-> ForecastRequest(HistoricalData(rawData[1][1]),
                                            selectedIndices[1], forecastHorizon)])
  /\ lastOp' = "handleGenerateForecast"
  /\ UNCHANGED <<selectedGeometry, startDate, endDate, selectedIndices, chartData,
                 rawData, isLoading, forecastData, forecastHorizon, showForecast,
                 pendingAnalyses>>

\* handleGenerateForecast up to its await; the button is rendered while
\* chartData && !showForecast and disabled while isForecastLoading
handleGenerateForecast ==
  /\ chartData # Null /\ ~showForecast /\ ~isForecastLoading
  /\ IF rawData = Null \/ Len(rawData[1]) = 0 \/ chartData = Null
       THEN /\ error' = Some(ErrLoadFirst)
            /\ UNCHANGED <<isForecastLoading, pendingForecast>>
     ELSE IF Len(HistoricalData(rawData[1][1])) < MinHistoryPoints
       THEN /\ error' = Some(ErrInsufficientHistory)
            /\ UNCHANGED <<isForecastLoading, pendingForecast>>
     ELSE /\ isForecastLoading' = TRUE
          /\ error' = Null
          /\ pendingForecast' = Some(
               [indexToForecast |-> selectedIndices[1],
                request |-> ForecastRequest(HistoricalData(rawData[1][1]),
                                            selectedIndices[1], forecastHorizon)])
  /\ lastOp' = "handleGenerateForecast"
  /\ UNCHANGED <<selectedGeometry, startDate, endDate, selectedIndices, chartData,
                 rawData, isLoading, forecastData, forecastHorizon, showForecast,
                 pendingAnalyses>>

\* one dataset of updateChartWithForecast
ForecastDataset(points, indexName, kind, background) ==
  [label |-> <<indexName, kind>>,
   data |-> [i \in 1..Len(points) |-> [x |-> points[i].date, y |-> points[i].value]],
   backgroundColor |-> background,
   borderColor |-> IF kind = "Historical" THEN <<"color", indexName>> ELSE background]

\* updateChartWithForecast drawing the interpolated points in the
\* historical dataset
updateChartWithForecast_Merged(forecastResponse, indexName) ==
  LET historicalPoints == SelectSeq(forecastResponse.forecast, LAMBDA p : p.type # "Forecast")
      forecastPoints == SelectSeq(forecastResponse.forecast, LAMBDA p : p.type = "Forecast")
      newDatasets ==
        (IF Len(historicalPoints) > 0
           THEN <<ForecastDataset(historicalPoints, indexName, "Historical",
                                  <<"color", indexName>>)>>
           ELSE <<>>)
        \o (IF Len(forecastPoints) > 0
              THEN <<ForecastDataset(forecastPoints, indexName, "Forecast",
                                     <<"rgba(168, 85, 247, 0.1)">>)>>
              ELSE <<>>)
      allDates == [i \in 1..Len(forecastResponse.forecast) |->
                     forecastResponse.forecast[i].date]
  IN [labels |-> allDates, datasets |-> newDatasets]

\* the chart updateChartWithForecast sets
updateChartWithForecast(forecastResponse, indexName) ==
  LET historicalPoints == SelectSeq(forecastResponse.forecast, LAMBDA p : p.type = "Historical")
      interpolatedPoints == SelectSeq(forecastResponse.forecast, LAMBDA p : p.type = "Interpolated")
      forecastPoints == SelectSeq(forecastResponse.forecast, LAMBDA p : p.type = "Forecast")
      newDatasets ==
        (IF Len(historicalPoints) > 0
           THEN <<ForecastDataset(historicalPoints, indexName, "Historical",
                                  <<"color", indexName>>)>>
           ELSE <<>>)
        \o (IF Len(interpolatedPoints) > 0
              THEN <<ForecastDataset(interpolatedPoints, indexName, "Interpolated",
                                     <<"#9ca3af">>)>>
              ELSE <<>>)
        \o (IF Len(forecastPoints) > 0
              THEN <<ForecastDataset(forecastPoints, indexName, "Forecast",
                                     <<"rgba(168, 85, 247, 0.1)">>)>>
              ELSE <<>>)
      allDates == [i \in 1..Len(forecastResponse.forecast) |->
                     forecastResponse.forecast[i].date]
  IN [labels |-> allDates, datasets |-> newDatasets]

\* handleGenerateForecast after its await, the request fulfilled
ForecastFulfilled ==
  /\ pendingForecast # Null
  /\ \E forecastResponse \in ModalForecastResponses :
       /\ forecastData' = Some(forecastResponse)
       /\ chartData' = Some(updateChartWithForecast(forecastResponse,
                                                    pendingForecast[1].indexToForecast))
  /\ showForecast' = TRUE
  /\ isForecastLoading' = FALSE
  /\ pendingForecast' = Null
  /\ lastOp' = "forecastFulfilled"
  /\ UNCHANGED <<selectedGeometry, startDate, endDate, selectedIndices, rawData,
                 isLoading, error, forecastHorizon, pendingAnalyses>>

\* a variant of the rejection without the finally block
ForecastRejected_NoFinally ==
  /\ pendingForecast # Null
  /\ \E axiosError \in AxiosErrors :
       LET err == HandleError(axiosError, "Failed to generate forecast")
       IN error' = Some(OrElse(err.message, ErrForecastDefault))
  /\ pendingForecast' = Null
  /\ lastOp' = "forecastRejected"
  /\ UNCHANGED <<selectedGeometry, startDate, endDate, selectedIndices, chartData,
                 rawData, isLoading, forecastData, forecastHorizon, showForecast,
                 pendingAnalyses, isForecastLoading>>

\* handleGenerateForecast after its await, the request rejected: AIService
\* turns the axios error into the Error the handler catches
ForecastRejected ==
  /\ pendingForecast # Null
  /\ \E axiosError \in AxiosErrors :
       LET err == HandleError(axiosError, "Failed to generate forecast")
       IN error' = Some(OrElse(err.message, ErrForecastDefault))
  /\ isForecastLoading' = FALSE
  /\ pendingForecast' = Null
  /\ lastOp' = "forecastRejected"
  /\ UNCHANGED <<selectedGeometry, startDate, endDate, selectedIndices, chartData,
                 rawData, isLoading, forecastData, forecastHorizon, showForecast,
                 pendingAnalyses>>

\* The sessions explored: in one session the user edits one group of the
\* modal's inputs (the index check boxes, the horizon input or the date
\* inputs) and leaves the other two as mounted.
Focuses == {"indices", "horizon", "dates"}

\* everything but the modal's own state
tsFrame == <<focus, ucVars, feVars, asmVars, znVars, restVars>>

TsNext ==
  \/ focus = "dates" /\ SetStartDate /\ UNCHANGED tsFrame
  \/ focus = "dates" /\ SetEndDate /\ UNCHANGED tsFrame
  \/ focus = "indices" /\ toggleIndex /\ UNCHANGED tsFrame
  \/ focus = "horizon" /\ SetForecastHorizon /\ UNCHANGED tsFrame
  \/ handleAnalyzeDynamics /\ UNCHANGED tsFrame
  \/ ReturnToOriginal /\ UNCHANGED tsFrame
  \/ AnalysisFulfilled /\ UNCHANGED tsFrame
  \/ AnalysisRejected /\ UNCHANGED tsFrame
  \/ handleGenerateForecast /\ UNCHANGED tsFrame
  \/ ForecastFulfilled /\ UNCHANGED tsFrame
  \/ ForecastRejected /\ UNCHANGED tsFrame

(***************************************************************************)
(* updateChartWithForecast as a function of the forecast response          *)
(***************************************************************************)
ForecastResponses == {ForecastResponse(t) : t \in SeqsUpTo(ProvenanceTags, MaxRespLen)}

UcIdle == ucResponse = Null /\ ucIndexName = "" /\ ucChart = Null

UcInit ==
  /\ ucResponse \in {Some(r) : r \in ForecastResponses}
  /\ ucIndexName \in {VEGETATION_INDICES_OPTIONS[k] : k \in 1..Len(VEGETATION_INDICES_OPTIONS)}
  /\ ucChart = Null

\* the call updateChartWithForecast(forecastResponse, indexToForecast)
UcCall ==
  /\ ucChart = Null
  /\ ucChart' = Some(updateChartWithForecast(ucResponse[1], ucIndexName))
  /\ UNCHANGED <<ucResponse, ucIndexName>>

TsIdle ==
  /\ selectedGeometry = Null /\ startDate = 0 /\ endDate = 0
  /\ selectedIndices = <<>> /\ chartData = Null /\ rawData = Null
  /\ isLoading = FALSE /\ error = Null /\ forecastData = Null
  /\ isForecastLoading = FALSE /\ forecastHorizon = 0 /\ showForecast = FALSE
  /\ pendingAnalyses = <<>> /\ pendingForecast = Null /\ lastOp = ""
  /\ focus = ""

(***************************************************************************)
(* ForecastEngine (spec 4.5): forecast(series_points, index, horizon_days) *)
(***************************************************************************)
\* minimum number of input points
FeMinPoints == 10
\* the horizon is 1..FeMaxHorizon days
FeMaxHorizon == 90
\* the physically valid range of an NDVI-like index, in 1/100
IndexMin == -100
IndexMax == 100

\* predictions are clipped to the index's valid range
Clip(v) == IF v < IndexMin THEN IndexMin ELSE IF v > IndexMax THEN IndexMax ELSE v

\* The regressor is trained once per request and its predictions are
\* approximate: the fitted model is any of these trends (value at the last
\* input date, change per day), some of which leave the valid range.
FeModels == {[level |-> 40, slope |-> 0], [level |-> 60, slope |-> 3],
             [level |-> -60, slope |-> -2]}

\* a variant whose forecast begins on the last input date
forecast_FromLastDate(series_points, model, horizon_days) ==
  IF Len(series_points) < FeMinPoints
    THEN [kind |-> "InsufficientHistoryError"]
  ELSE IF horizon_days < 1 \/ horizon_days > FeMaxHorizon
    THEN [kind |-> "InvalidParameterError"]
  ELSE LET last == series_points[Len(series_points)].date
       IN [kind |-> "ok",
           points |-> series_points \o
             [i \in 1..horizon_days |->
                [date |-> last + i - 1,
                 value |-> Clip(model.level + model.slope * i),
                 provenance |-> "Forecast"]],
           metadata |-> [model_type |-> "GradientBoosting",
                         training_point_count |-> Len(series_points),
                         horizon_days |-> horizon_days]]

\* forecast with the minimum-history check and the horizon check, then the
\* input points re-tagged unchanged followed by one Forecast point per day
\* of the horizon
forecast(series_points, model, horizon_days) ==
  IF Len(series_points) < FeMinPoints
    THEN [kind |-> "InsufficientHistoryError"]
  ELSE IF horizon_days < 1 \/ horizon_days > FeMaxHorizon
    THEN [kind |-> "InvalidParameterError"]
  ELSE LET last == series_points[Len(series_points)].date
       IN [kind |-> "ok",
           points |-> series_points \o
             [i \in 1..horizon_days |->
                [date |-> last + i,
                 value |-> Clip(model.level + model.slope * i),
                 provenance |-> "Forecast"]],
           metadata |-> [model_type |-> "GradientBoosting",
                         training_point_count |-> Len(series_points),
                         horizon_days |-> horizon_days]]

\* an input series: n points, stride days apart, every interpEvery-th one
\* Interpolated (0: none)
FeInput(n, stride, interpEvery) ==
  [i \in 1..n |->
     [date |-> Today + stride * i,
      value |-> 20 + ((7 * i) % 50),
      provenance |-> IF interpEvery > 0 /\ i % interpEvery = 0
                       THEN "Interpolated" ELSE "Historical"]]

FeLens == {FeMinPoints - 2, FeMinPoints - 1, FeMinPoints, FeMinPoints + 5}
FeHorizons == {0, 1, 7, FeMaxHorizon, FeMaxHorizon + 1}

FeIdle == feSeries = <<>> /\ feHorizon = 0 /\ feResult = Null

FeInit ==
  /\ feSeries \in {FeInput(n, stride, e) : n \in FeLens, stride \in 1..MaxStride, e \in {0, 2, 3}}
  /\ feHorizon \in FeHorizons
  /\ feResult = Null

\* the engine serves the request
FeForecast ==
  /\ feResult = Null
  /\ \E model \in FeModels : feResult' = Some(forecast(feSeries, model, feHorizon))
  /\ UNCHANGED <<feSeries, feHorizon>>

(***************************************************************************)
(* TimeSeriesAssembler (spec 4.4, 5, 7): series(geometry, index, start,    *)
(* end).  Values are in units of 1/10000.                                  *)
(***************************************************************************)
\* a date contributes a Historical point only below this cloud coverage
AsmMaxCloudPercent == 50

AsmStartDay == Today
\* the candidate dates of the request, one per cadence step from the start
AsmDates == {AsmStartDay + AsmCadence * (i - 1) : i \in 1..NumCandidates}
\* the end of the range lies one day after the last candidate date
AsmEndDay == AsmStartDay + AsmCadence * (NumCandidates - 1) + 1

\* what a single-date analysis may report: mean index, cloud coverage
AsmValues == {3000, 5000}
AsmClouds == {10, 80}

RECURSIVE InsertByDate(_, _)
InsertByDate(sorted, p) ==
  IF sorted = <<>> THEN <<p>>
  ELSE IF p.date < Head(sorted).date THEN <<p>> \o sorted
       ELSE <<Head(sorted)>> \o InsertByDate(Tail(sorted), p)

\* a variant that leaves the points in the order given
SortByDate_None(points) == points

RECURSIVE SortByDate(_)
\* the points in ascending order of date
SortByDate(points) ==
  IF points = <<>> THEN <<>>
  ELSE InsertByDate(SortByDate(Tail(points)), Head(points))

SetMin(S) == CHOOSE x \in S : \A y \in S : x <= y
SetMax(S) == CHOOSE x \in S : \A y \in S : x >= y

\* the value on day d of the straight line through Historical points a, b
Interpolate(a, b, d) ==
  a.value + ((b.value - a.value) * (d - a.date)) \div (b.date - a.date)

\* a variant that also fills the days of the range before the first and
\* after the last Historical point, with the value of the nearest one
AsmGapFill_Extrapolating(historical) ==
  LET dates == {historical[i].date : i \in 1..Len(historical)}
      at(d) == historical[CHOOSE i \in 1..Len(historical) : historical[i].date = d]
      gaps == {d \in AsmStartDay..AsmEndDay : d \notin dates}
      fill(d) == [date |-> d,
                  value |-> IF d < SetMin(dates) THEN at(SetMin(dates)).value
                            ELSE IF d > SetMax(dates) THEN at(SetMax(dates)).value
                            ELSE Interpolate(at(SetMax({e \in dates : e < d})),
                                             at(SetMin({e \in dates : e > d})), d),
                  provenance |-> "Interpolated"]
      RECURSIVE asSeq(_)
      asSeq(S) == IF S = {} THEN <<>>
                  ELSE <<fill(SetMax(S))>> \o asSeq(S \ {SetMax(S)})
  IN asSeq(gaps)

\* Gap policy: one Interpolated point for every calendar date without a
\* Historical observation that has Historical points on both sides
AsmGapFill(historical) ==
  LET dates == {historical[i].date : i \in 1..Len(historical)}
      at(d) == historical[CHOOSE i \in 1..Len(historical) : historical[i].date = d]
      gaps == {d \in SetMin(dates)..SetMax(dates) : d \notin dates}
      fill(d) == [date |-> d,
                  value |-> Interpolate(at(SetMax({e \in dates : e < d})),
                                        at(SetMin({e \in dates : e > d})), d),
                  provenance |-> "Interpolated"]
      RECURSIVE asSeq(_)
      asSeq(S) == IF S = {} THEN <<>>
                  ELSE <<fill(SetMax(S))>> \o asSeq(S \ {SetMax(S)})
  IN asSeq(gaps)

\* the series returned: the Historical points and the filled gaps, by date
AsmSeries(historical) ==
  SortByDate([i \in 1..Len(historical) |->
                [date |-> historical[i].date, value |-> historical[i].value,
                 provenance |-> "Historical"]]
             \o AsmGapFill(historical))

AsmInFlight == {d \in AsmDates : asmFetch[d].state = "inflight"}

AsmIdle == asmFetch = <<>> /\ asmHistorical = <<>> /\ asmSkipped = {} /\ asmResult = Null

AsmInit ==
  /\ asmFetch = [d \in AsmDates |-> [state |-> "idle"]]
  /\ asmHistorical = <<>>
  /\ asmSkipped = {}
  /\ asmResult = Null

\* the assembler issues the ImageSource call of a candidate date
AsmStartFetch(d) ==
  /\ asmFetch[d].state = "idle"
  /\ Cardinality(AsmInFlight) < ConcurrencyCap
  /\ asmFetch' = [asmFetch EXCEPT ![d] = [state |-> "inflight"]]
  /\ UNCHANGED <<asmHistorical, asmSkipped, asmResult>>

\* the single-date analysis of date d completes: a Historical point when
\* the cloud coverage is acceptable, otherwise the date is skipped
AsmFetchCompletes(d, value, cloud) ==
  /\ asmFetch[d].state = "inflight"
  /\ asmFetch' = [asmFetch EXCEPT ![d] = [state |-> "ok", value |-> value, cloud |-> cloud]]
  /\ IF cloud < AsmMaxCloudPercent
       THEN /\ asmHistorical' = Append(asmHistorical, [date |-> d, value |-> value])
            /\ UNCHANGED asmSkipped
       ELSE /\ asmSkipped' = asmSkipped \cup {[date |-> d, reason |-> "cloud"]}
            /\ UNCHANGED asmHistorical
  /\ UNCHANGED asmResult

\* a variant in which a failed call discards the points gathered so far
AsmFetchFails_Aborts(d) ==
  /\ asmFetch[d].state = "inflight"
  /\ asmFetch' = [asmFetch EXCEPT ![d] = [state |-> "error"]]
  /\ asmSkipped' = asmSkipped \cup {[date |-> d, reason |-> "ProviderError"]}
  /\ asmHistorical' = <<>>
  /\ UNCHANGED asmResult

\* the ImageSource call of date d fails (ProviderError): the date is
\* skipped and recorded, the other dates are not affected
AsmFetchFails(d) ==
  /\ asmFetch[d].state = "inflight"
  /\ asmFetch' = [asmFetch EXCEPT ![d] = [state |-> "error"]]
  /\ asmSkipped' = asmSkipped \cup {[date |-> d, reason |-> "ProviderError"]}
  /\ UNCHANGED <<asmHistorical, asmResult>>

\* every call has settled: NoDataError without a Historical point,
\* otherwise the series and the skipped dates
AsmAssemble ==
  /\ asmResult = Null
  /\ \A d \in AsmDates : asmFetch[d].state \in {"ok", "error"}
  /\ asmResult' = Some(IF asmHistorical = <<>>
                         THEN [kind |-> "NoDataError", skipped |-> asmSkipped]
                         ELSE [kind |-> "ok", series |-> AsmSeries(asmHistorical),
                               skipped |-> asmSkipped])
  /\ UNCHANGED <<asmFetch, asmHistorical, asmSkipped>>

(***************************************************************************)
(* ZoningEngine (spec 4.3): zone(raster, mask, num_zones).  Index values   *)
(* are in 1/100; a mean is kept as the pair of a sum and a count and two   *)
(* means are compared by cross-multiplication.                             *)
(***************************************************************************)
\* the zone counts the engine accepts
ZoneCounts == {3, 4, 5}
\* fewer valid pixels than this is InsufficientDataError
MinValidPixels == 20

Abs(x) == IF x < 0 THEN -x ELSE x

RECURSIVE SumOf(_, _)
\* the sum of the raster values of the pixels in S
SumOf(S, raster) ==
  IF S = {} THEN 0
  ELSE LET i == CHOOSE i \in S : TRUE IN raster[i] + SumOf(S \ {i}, raster)

RECURSIVE SortedSeq(_)
\* the numbers of S in ascending order
SortedSeq(S) == IF S = {} THEN <<>> ELSE <<SetMin(S)>> \o SortedSeq(S \ {SetMin(S)})

ValidPixels(mask) == {i \in DOMAIN mask : mask[i]}

\* mean a < mean b
MeanLess(a, b) == a.sum * b.count < b.sum * a.count

\* value x is strictly closer to centroid a than to centroid b
Closer(x, a, b) ==
  Abs(x * a.count - a.sum) * b.count < Abs(x * b.count - b.sum) * a.count

\* the internal label of the nearest centroid, the lowest label on a tie
Nearest(x, centroids) ==
  CHOOSE c \in DOMAIN centroids :
    \A o \in DOMAIN centroids \ {c} :
      \/ Closer(x, centroids[c], centroids[o])
      \/ ~Closer(x, centroids[o], centroids[c]) /\ c < o

\* assignment step: every valid pixel to its nearest centroid
AssignLabels(raster, mask, centroids) ==
  [i \in DOMAIN raster |-> IF mask[i] THEN Nearest(raster[i], centroids) ELSE 0]

\* the pixels carrying internal label c, their sum and their number
Members(labels, c) == {i \in DOMAIN labels : labels[i] = c}
ClusterMean(raster, labels, c) ==
  [sum |-> SumOf(Members(labels, c), raster), count |-> Cardinality(Members(labels, c))]

\* update step: every centroid to the mean of its members (a cluster
\* without members keeps its centroid)
UpdateCentroids(raster, labels, centroids) ==
  [c \in DOMAIN centroids |->
     IF Members(labels, c) = {} THEN centroids[c] ELSE ClusterMean(raster, labels, c)]

\* The internal label of the j-th seed of k: the clustering step numbers
\* its clusters arbitrarily, as a function of the seed
ZnSeeds == {"ascending", "descending", "rotated"}
InternalLabel(seed, k, j) ==
  CASE seed = "ascending" -> j
    [] seed = "descending" -> k + 1 - j
    [] seed = "rotated" -> (j % k) + 1

\* deterministic initialization: the k sorted quantiles of the distinct
\* valid values
QuantileSeeds(raster, mask, k, seed) ==
  LET u == SortedSeq({raster[i] : i \in ValidPixels(mask)})
      q(j) == u[1 + ((j - 1) * (Len(u) - 1)) \div (k - 1)]
  IN [c \in 1..k |->
        [sum |-> q(CHOOSE j \in 1..k : InternalLabel(seed, k, j) = c), count |-> 1]]

\* a variant that keeps the internal label as the zone id
ZoneIdOf_Internal(raster, labels, k, c) == c

\* relabelling: the zone id of internal cluster c is its rank by ascending
\* cluster mean (equal means by internal label)
ZoneIdOf(raster, labels, k, c) ==
  1 + Cardinality({o \in 1..k :
        \/ MeanLess(ClusterMean(raster, labels, o), ClusterMean(raster, labels, c))
        \/ /\ ~MeanLess(ClusterMean(raster, labels, c), ClusterMean(raster, labels, o))
           /\ o < c})

\* a variant that takes the pixels by value alone, the mask not consulted
ZonePixels_Unmasked(raster, mask, labels, c) ==
  Members(labels, c) \cup
    {i \in DOMAIN raster : ~mask[i] /\ \E j \in Members(labels, c) : raster[j] = raster[i]}

\* the pixel mask of internal cluster c
ZonePixels(raster, mask, labels, c) == {i \in Members(labels, c) : mask[i]}

\* the zones: per zone id its pixels and the statistics over them
Zones(raster, mask, labels, k) ==
  [z \in 1..k |->
     LET c == CHOOSE c \in 1..k : ZoneIdOf(raster, labels, k, c) = z
         pixels == ZonePixels(raster, mask, labels, c)
     IN [zone_id |-> z,
         pixels |-> pixels,
         pixel_count |-> Cardinality(pixels),
         sum_index |-> SumOf(pixels, raster),
         min_index |-> IF pixels = {} THEN Null ELSE Some(SetMin({raster[i] : i \in pixels})),
         max_index |-> IF pixels = {} THEN Null ELSE Some(SetMax({raster[i] : i \in pixels}))]]

\* the rasters of the requests: a gradient, scattered values, two levels,
\* four levels, an outlier beside a narrow band, a uniform field
ZnRasters ==
  {[i \in 1..RasterPixels |-> 4 * i - 20],
   [i \in 1..RasterPixels |-> (37 * i * i + 11 * i) % 90],
   [i \in 1..RasterPixels |-> IF i % 2 = 0 THEN 20 ELSE 70],
   [i \in 1..RasterPixels |-> 20 * (i % 4)],
   [i \in 1..RasterPixels |-> IF i = 1 THEN -100 ELSE 50 + (i % 7)],
   [i \in 1..RasterPixels |-> 55]}

\* the masks: every pixel valid, every sixth pixel invalid, one pixel short
\* of the minimum, three valid pixels
ZnMasks ==
  {[i \in 1..RasterPixels |-> TRUE],
   [i \in 1..RasterPixels |-> i % 6 # 0],
   [i \in 1..RasterPixels |-> i < MinValidPixels],
   [i \in 1..RasterPixels |-> i <= 3]}

ZnKs == {2, 3, 4, 5, 6}

ZnIdle ==
  /\ znRaster = <<>> /\ znMask = <<>> /\ znK = 0 /\ znSeed = "" /\ znPhase = "idle"
  /\ znCentroids = <<>> /\ znLabels = <<>> /\ znIter = 0 /\ znResult = Null

ZnInit ==
  /\ znRaster \in ZnRasters
  /\ znMask \in ZnMasks
  /\ znK \in ZnKs
  /\ znSeed \in ZnSeeds
  /\ znPhase = "requested"
  /\ znCentroids = <<>>
  /\ znLabels = <<>>
  /\ znIter = 0
  /\ znResult = Null

ZnFail(kind) ==
  /\ znResult' = Some([kind |-> kind])
  /\ znPhase' = "done"
  /\ UNCHANGED <<znCentroids, znLabels>>

\* input validation, then the seeds and the first assignment
ZnValidateAndSeed ==
  /\ znPhase = "requested"
  /\ IF znK \notin ZoneCounts
       THEN ZnFail("InvalidParameterError")
     ELSE IF Cardinality(ValidPixels(znMask)) < MinValidPixels
       THEN ZnFail("InsufficientDataError")
     ELSE IF Cardinality({znRaster[i] : i \in ValidPixels(znMask)}) < znK
       THEN ZnFail("InsufficientDiversityError")
     ELSE /\ znCentroids' = QuantileSeeds(znRaster, znMask, znK, znSeed)
          /\ znLabels' = AssignLabels(znRaster, znMask, znCentroids')
          /\ znPhase' = "clustering"
          /\ UNCHANGED znResult
  /\ UNCHANGED <<znRaster, znMask, znK, znSeed, znIter>>

\* one Lloyd iteration: update the centroids, assign again; the clustering
\* stops when no pixel changes its cluster or the iterations run out
ZnLloydStep ==
  /\ znPhase = "clustering"
  /\ znCentroids' = UpdateCentroids(znRaster, znLabels, znCentroids)
  /\ znLabels' = AssignLabels(znRaster, znMask, znCentroids')
  /\ znIter' = znIter + 1
  /\ znPhase' = IF znLabels' = znLabels \/ znIter' >= MaxLloydIterations
                  THEN "converged" ELSE "clustering"
  /\ UNCHANGED <<znRaster, znMask, znK, znSeed, znResult>>

\* relabel by ascending mean and compute the zones
ZnRelabel ==
  /\ znPhase = "converged"
  /\ znResult' = Some([kind |-> "ok", zones |-> Zones(znRaster, znMask, znLabels, znK)])
  /\ znPhase' = "done"
  /\ UNCHANGED <<znRaster, znMask, znK, znSeed, znCentroids, znLabels, znIter>>

(***************************************************************************)
(* ZoningEngine (spec 4.3): a repeated call on identical input.            *)
(***************************************************************************)
RECURSIVE Lloyd(_, _, _, _, _)
\* the Lloyd iterations from the given centroids and assignment, to the
\* final assignment
Lloyd(raster, mask, centroids, labels, iter) ==
  LET updated == UpdateCentroids(raster, labels, centroids)
      assigned == AssignLabels(raster, mask, updated)
  IN IF assigned = labels \/ iter + 1 >= MaxLloydIterations
       THEN assigned
       ELSE Lloyd(raster, mask, updated, assigned, iter + 1)

\* a whole call of zone from the given initial centroids
ZoneFrom(raster, mask, num_zones, centroids) ==
  IF num_zones \notin ZoneCounts
    THEN [kind |-> "InvalidParameterError"]
  ELSE IF Cardinality(ValidPixels(mask)) < MinValidPixels
    THEN [kind |-> "InsufficientDataError"]
  ELSE IF Cardinality({raster[i] : i \in ValidPixels(mask)}) < num_zones
    THEN [kind |-> "InsufficientDiversityError"]
  ELSE [kind |-> "ok",
        zones |-> Zones(raster, mask,
                        Lloyd(raster, mask, centroids,
                              AssignLabels(raster, mask, centroids), 0),
                        num_zones)]

\* initial centroids that are not the quantiles: the num_zones lowest
\* distinct valid values
LowestSeeds(raster, mask, num_zones) ==
  LET u == SortedSeq({raster[i] : i \in ValidPixels(mask)})
  IN [c \in 1..num_zones |-> [sum |-> u[c], count |-> 1]]

\* the initial centroids of a call that can succeed (none otherwise)
SeedsOrNone(raster, mask, num_zones, seed) ==
  IF num_zones \in ZoneCounts
     /\ Cardinality({raster[i] : i \in ValidPixels(mask)}) >= num_zones
    THEN QuantileSeeds(raster, mask, num_zones, seed)
    ELSE <<>>

ZrIdle == znRerun = Null

\* a variant whose initialization is not seeded: the quantiles in one call,
\* the lowest values in another
ZnRepeat_Unseeded ==
  /\ znPhase # "idle"
  /\ znRerun = Null
  /\ \E quantiles \in BOOLEAN :
       znRerun' = Some(ZoneFrom(znRaster, znMask, znK,
                         IF quantiles \/ SeedsOrNone(znRaster, znMask, znK, znSeed) = <<>>
                           THEN SeedsOrNone(znRaster, znMask, znK, znSeed)
                           ELSE LowestSeeds(znRaster, znMask, znK)))
  /\ UNCHANGED znVars

\* the engine is called again with the same raster, mask and zone count
ZnRepeat ==
  /\ znPhase # "idle"
  /\ znRerun = Null
  /\ znRerun' = Some(ZoneFrom(znRaster, znMask, znK,
                              SeedsOrNone(znRaster, znMask, znK, znSeed)))
  /\ UNCHANGED znVars

(***************************************************************************)
(* FieldZoningTool (FieldZoningTool.jsx)                                   *)
(***************************************************************************)
\* the messages, in English
ErrFzAuth == "authorization required to create zones"
ErrFzNoTarget == "analysis_id or field_id must be given"
ErrFzDefault == "error while creating zones"

DefaultNumZones == 4
SliderMin == 3
SliderMax == 5

\* parseInt on the decimal strings a slider can hold
ParseInt(str) ==
  CASE str = "0" -> 0 [] str = "1" -> 1 [] str = "2" -> 2 [] str = "3" -> 3
    [] str = "4" -> 4 [] str = "5" -> 5 [] str = "6" -> 6 [] str = "7" -> 7
    [] str = "8" -> 8 [] str = "9" -> 9
DecimalString(n) ==
  CASE n = 0 -> "0" [] n = 1 -> "1" [] n = 2 -> "2" [] n = 3 -> "3" [] n = 4 -> "4"
    [] n = 5 -> "5" [] n = 6 -> "6" [] n = 7 -> "7" [] n = 8 -> "8" [] n = 9 -> "9"

\* a variant of the slider without its max attribute
SliderValues_NoMax == {DecimalString(n) : n \in SliderMin..(SliderMax + 1)}

\* e.target.value of the range input: the browser keeps the value of an
\* input of type range within its min and max, on the step of 1
SliderValues == {DecimalString(n) : n \in SliderMin..SliderMax}

\* the props and the token of the sessions
FzIds == {Null, Some(7)}
FzTokens == {Null, Some("jwt")}
\* what the zones endpoint answers in errorData.detail ("": none)
FzDetails == {"", "Insufficient data for zoning"}

FzIdle ==
  /\ fzAnalysisId = Null /\ fzFieldId = Null /\ fzToken = Null /\ numZones = 0
  /\ fzLoading = FALSE /\ fzError = Null /\ fzZoneData = Null
  /\ fzPending = Null /\ fzRequests = <<>>

FzInit ==
  /\ fzAnalysisId \in FzIds
  /\ fzFieldId \in FzIds
  /\ fzToken \in FzTokens
  /\ numZones = DefaultNumZones
  /\ fzLoading = FALSE
  /\ fzError = Null
  /\ fzZoneData = Null
  /\ fzPending = Null
  /\ fzRequests = <<>>

\* the slider moves
setNumZones(value) ==
  /\ ~fzLoading
  /\ numZones' = ParseInt(value)
  /\ UNCHANGED <<fzAnalysisId, fzFieldId, fzToken, fzLoading, fzError, fzZoneData,
                 fzPending, fzRequests>>

\* the 'token' key of localStorage is written or removed (no code of the
\* application writes it: login stores 'access_token')
FzSetToken(token) ==
  /\ fzToken # token
  /\ fzToken' = token
  /\ UNCHANGED <<fzAnalysisId, fzFieldId, numZones, fzLoading, fzError, fzZoneData,
                 fzPending, fzRequests>>

\* the body of the zones request; an absent key is Null
ZonesRequestBody(num, analysisId, fieldId) ==
  [num_zones |-> num,
   analysis_id |-> analysisId,
   field_id |-> IF analysisId = Null THEN fieldId ELSE Null]

\* a variant that sends the request before it looks at the token and at
\* the target
handleCreateZones_SendFirst ==
  /\ ~fzLoading
  /\ Len(fzRequests) < MaxZoneRequests
  /\ fzError' = Null
  /\ fzLoading' = TRUE
  /\ fzPending' = Some([body |-> [num_zones |-> numZones, analysis_id |-> fzAnalysisId,
                                  field_id |-> fzFieldId],
                        token |-> fzToken])
  /\ fzRequests' = Append(fzRequests, fzPending'[1])
  /\ UNCHANGED <<fzAnalysisId, fzFieldId, fzToken, numZones, fzZoneData>>

\* handleCreateZones up to its first await (the button is disabled while
\* loading): the throws before the fetch end in catch and finally
handleCreateZones ==
  /\ ~fzLoading
  /\ Len(fzRequests) < MaxZoneRequests
  /\ IF fzToken = Null
       THEN /\ fzError' = Some(ErrFzAuth)
            /\ fzLoading' = FALSE
            /\ UNCHANGED <<fzPending, fzRequests>>
     ELSE IF fzAnalysisId = Null /\ fzFieldId = Null
       THEN /\ fzError' = Some(ErrFzNoTarget)
            /\ fzLoading' = FALSE
            /\ UNCHANGED <<fzPending, fzRequests>>
     ELSE /\ fzError' = Null
          /\ fzLoading' = TRUE
          /\ fzPending' = Some([body |-> ZonesRequestBody(numZones, fzAnalysisId, fzFieldId),
                                token |-> fzToken])
          /\ fzRequests' = Append(fzRequests, fzPending'[1])
  /\ UNCHANGED <<fzAnalysisId, fzFieldId, fzToken, numZones, fzZoneData>>

\* the response is ok: its data become zoneData
FzResponseOk ==
  /\ fzPending # Null
  /\ fzZoneData' = Some([num_zones |-> fzPending[1].body.num_zones])
  /\ fzLoading' = FALSE
  /\ fzPending' = Null
  /\ UNCHANGED <<fzAnalysisId, fzFieldId, fzToken, numZones, fzError, fzRequests>>

\* the response is not ok: errorData.detail || the default message
FzResponseNotOk(detail) ==
  /\ fzPending # Null
  /\ fzError' = Some(OrElse(detail, ErrFzDefault))
  /\ fzLoading' = FALSE
  /\ fzPending' = Null
  /\ UNCHANGED <<fzAnalysisId, fzFieldId, fzToken, numZones, fzZoneData, fzRequests>>

(***************************************************************************)
(* MapPage (part_006), Sidebar (Sidebar.jsx), DrawControl (MapView.jsx)    *)
(* and the dashboard widgets (FieldStatsWidget.jsx, part_005)              *)
(***************************************************************************)
\* the keys of VEGETATION_INDICES, in order
VEGETATION_INDICES == <<"NDVI", "EVI", "PSRI", "NBR", "NDSI">>
\* the checkboxes the session uses: NDVI and the first optional indices
SidebarIndexNames == {VEGETATION_INDICES[i] : i \in 1..(1 + SidebarExtras)}

ErrSbDefault == "analysis failed, try again"

\* the polygons the user draws
Geometries == {"polygonA", "polygonB"}
\* what the analyze endpoint answers in err.response.data.detail ("": none)
AnalyzeDetails == {"", "No images found"}

\* the stored dashboard items the widgets are rendered for (index_type "":
\* not set)
DashboardItems ==
  [item_type : {"field_stats", "latest_ndvi_map"},
   index_type : {"", "NDVI", "EVI"}]

MpIdle ==
  /\ mpSelectedGeometry = Null /\ analysisResult = Null /\ isAnalyzing = FALSE
  /\ sbSelectedIndices = <<>> /\ sbError = Null /\ anPending = Null
  /\ dwWidget = Null /\ anRequests = <<>> /\ sbCallbacks = <<>>

MpInit ==
  /\ mpSelectedGeometry = Null
  /\ analysisResult = Null
  /\ isAnalyzing = FALSE
  /\ sbSelectedIndices = <<"NDVI">>
  /\ sbError = Null
  /\ anPending = Null
  /\ dwWidget = Null
  /\ anRequests = <<>>
  /\ sbCallbacks = <<>>

\* DrawControl: a polygon is drawn (L.Draw.Event.CREATED)
handleGeometrySelected(geometry) ==
  /\ mpSelectedGeometry' = Some(geometry)
  /\ analysisResult' = Null
  /\ UNCHANGED <<isAnalyzing, sbSelectedIndices, sbError, anPending, dwWidget, anRequests,
                 sbCallbacks>>

\* the clear button of the Sidebar, or the drawing is deleted on the map
handleClearSelection ==
  /\ mpSelectedGeometry # Null
  /\ mpSelectedGeometry' = Null
  /\ analysisResult' = Null
  /\ UNCHANGED <<isAnalyzing, sbSelectedIndices, sbError, anPending, dwWidget, anRequests,
                 sbCallbacks>>

\* a checkbox of the Sidebar changes
handleIndexToggle(indexName) ==
  /\ sbSelectedIndices' =
       IF indexName = "NDVI" THEN sbSelectedIndices
       ELSE IF Includes(sbSelectedIndices, indexName)
         THEN SelectSeq(sbSelectedIndices, LAMBDA idx : idx # indexName)
         ELSE Append(sbSelectedIndices, indexName)
  /\ UNCHANGED <<mpSelectedGeometry, analysisResult, isAnalyzing, sbError, anPending,
                 dwWidget, anRequests, sbCallbacks>>

AnalyzeRequest(from, geometry, indices) ==
  [from |-> from, geometry |-> geometry, indices |-> indices]

\* handleAnalyze up to its await (the button is disabled without a
\* geometry and while analyzing)
handleAnalyze ==
  /\ mpSelectedGeometry # Null
  /\ ~isAnalyzing
  /\ Len(anRequests) < MaxAnalyzeRequests
  /\ sbError' = Null
  /\ isAnalyzing' = TRUE
  /\ anPending' = Some(AnalyzeRequest("Sidebar", mpSelectedGeometry[1], sbSelectedIndices))
  /\ anRequests' = Append(anRequests, anPending'[1])
  /\ sbCallbacks' = Append(sbCallbacks, "onAnalysisStart")
  /\ UNCHANGED <<mpSelectedGeometry, analysisResult, sbSelectedIndices, dwWidget>>

\* the response arrives: onAnalysisComplete(response.data); the result is
\* the analysis of the geometry the request carried
AnalyzeFulfilled ==
  /\ anPending # Null
  /\ analysisResult' = Some([geometry |-> anPending[1].geometry])
  /\ isAnalyzing' = FALSE
  /\ anPending' = Null
  /\ sbCallbacks' = Append(sbCallbacks, "onAnalysisComplete")
  /\ UNCHANGED <<mpSelectedGeometry, sbSelectedIndices, sbError, dwWidget, anRequests>>

\* a variant of the failure that sets the error without calling onAnalysisError
AnalyzeRejected_NoCallback(detail) ==
  /\ anPending # Null
  /\ sbError' = Some(OrElse(detail, ErrSbDefault))
  /\ anPending' = Null
  /\ UNCHANGED <<mpSelectedGeometry, analysisResult, isAnalyzing, sbSelectedIndices, dwWidget,
                 anRequests, sbCallbacks>>

\* the request fails: the error is set and onAnalysisError() is called
AnalyzeRejected(detail) ==
  /\ anPending # Null
  /\ sbError' = Some(OrElse(detail, ErrSbDefault))
  /\ isAnalyzing' = FALSE
  /\ anPending' = Null
  /\ sbCallbacks' = Append(sbCallbacks, "onAnalysisError")
  /\ UNCHANGED <<mpSelectedGeometry, analysisResult, sbSelectedIndices, dwWidget, anRequests>>

\* the indices a dashboard widget asks for: FieldStatsWidget always NDVI,
\* LatestNdviMapWidget item.index_type || 'NDVI'
WidgetIndices(item) ==
  IF item.item_type = "field_stats" THEN <<"NDVI">>
  ELSE <<OrElse(item.index_type, "NDVI")>>

\* DashboardPage renders the widget of an item and its effect loads the
\* data (loadFieldStats, loadLatestNdvi, up to the await)
DwMount(item) ==
  /\ IF dwWidget = Null THEN TRUE ELSE ~dwWidget[1].isLoading
  /\ Len(anRequests) < MaxAnalyzeRequests
  /\ dwWidget' = Some([item |-> item, isLoading |-> TRUE, error |-> FALSE, loaded |-> FALSE])
  /\ anRequests' = Append(anRequests,
       AnalyzeRequest(IF item.item_type = "field_stats" THEN "FieldStatsWidget"
                      ELSE "LatestNdviMapWidget", "field_geometry", WidgetIndices(item)))
  /\ UNCHANGED <<mpSelectedGeometry, analysisResult, isAnalyzing, sbSelectedIndices, sbError,
                 anPending, sbCallbacks>>

\* the widget's request succeeds (stats are set) or fails (error is set)
DwSettled(ok) ==
  /\ dwWidget # Null
  /\ dwWidget[1].isLoading
  /\ dwWidget' = Some([dwWidget[1] EXCEPT !.isLoading = FALSE, !.error = ~ok, !.loaded = ok])
  /\ UNCHANGED <<mpSelectedGeometry, analysisResult, isAnalyzing, sbSelectedIndices, sbError,
                 anPending, anRequests, sbCallbacks>>

(***************************************************************************)
(* AIService (part_013): the three request methods when the request fails  *)
(***************************************************************************)
AiMethods == {"generateReport", "sendChatMessage", "forecastTimeSeries"}

\* the default message each method hands to _handleError
AiDefaultMessage(method) ==
  CASE method = "generateReport" -> "Failed to generate AI report"
    [] method = "sendChatMessage" -> "Failed to get AI chat response"
    [] method = "forecastTimeSeries" -> "Failed to generate forecast"

\* the failures of a request: a timeout, a network failure, and for each
\* status a response with a structured detail (with and without message and
\* error_type), a plain-text detail or none
AiStatuses == {400, 401, 403, 404, 422, 500, 503}
AiResponseDetails ==
  {[kind |-> "none"],
   [kind |-> "string", text |-> "horizon out of range"],
   [kind |-> "object", message |-> "not enough history", error_type |-> "insufficient_history"],
   [kind |-> "object", message |-> "", error_type |-> ""]}
AiFailures ==
  {[response |-> Null, code |-> "ECONNABORTED", message |-> "timeout of 60000ms exceeded"],
   [response |-> Null, code |-> "ERR_NETWORK", message |-> "Network Error"]}
  \cup {[response |-> Some([status |-> st, detail |-> d]),
         code |-> IF st >= 500 THEN "ERR_BAD_RESPONSE" ELSE "ERR_BAD_REQUEST",
         message |-> "Request failed"] : st \in AiStatuses, d \in AiResponseDetails}

AiIdle == aiMethod = "" /\ aiFailure = Null /\ aiOutcome = Null

AiInit ==
  /\ aiMethod \in AiMethods
  /\ aiFailure \in {Some(f) : f \in AiFailures}
  /\ aiOutcome = Null

\* the request of the method is rejected: the catch calls _handleError,
\* which throws on every path, so the method does not return
AiRequestFails ==
  /\ aiOutcome = Null
  /\ aiOutcome' = Some([returned |-> FALSE,
                        thrown |-> HandleError(aiFailure[1], AiDefaultMessage(aiMethod))])
  /\ UNCHANGED <<aiMethod, aiFailure>>

(***************************************************************************)
(* MapPage (part_006): the analysisContext of the AI panel, built by       *)
(* AIService.buildAnalysisContext (part_013).  Index values and hectares   *)
(* are in 1/100, percentages in 1/100 of a percent.                        *)
(***************************************************************************)
\* the NDVI values of the valid pixels
PixelValues == {-20, 0, 20, 45, 75}
\* ground area of one pixel, and the thresholds of zones_percent (spec 4.2)
PixelAreaHa == 100
LowBelow == 30
HighAbove == 60

ZoneKeys == <<"low", "medium", "high">>
InZone(v, key) ==
  CASE key = "low" -> v < LowBelow
    [] key = "medium" -> v >= LowBelow /\ v <= HighAbove
    [] key = "high" -> v > HighAbove

RECURSIVE SeqSum(_)
SeqSum(seq) == IF seq = <<>> THEN 0 ELSE Head(seq) + SeqSum(Tail(seq))

\* the stats of a single-date analysis of the pixels (spec 4.2)
AnalysisStats(pixels) ==
  LET vals == {pixels[i] : i \in 1..Len(pixels)}
  IN [area_ha |-> Len(pixels) * PixelAreaHa,
      mean_ndvi |-> SeqSum(pixels) \div Len(pixels),
      min_ndvi |-> SetMin(vals),
      max_ndvi |-> SetMax(vals),
      capture_date |-> Today,
      zones_percent |->
        [k \in 1..Len(ZoneKeys) |->
           [zone |-> ZoneKeys[k],
            percent |-> (10000 * Len(SelectSeq(pixels, LAMBDA v : InZone(v, ZoneKeys[k]))))
                          \div Len(pixels)]]]

\* a || b on numbers
NumOr(a, b) == IF a # 0 THEN a ELSE b

\* the mean MapPage writes into a zone by its label
FixedZoneMean(zone) ==
  IF zone = "low" THEN 20 ELSE IF zone = "medium" THEN 45 ELSE 75

MinZoneAreaHa == 1

\* the zones argument: the entries of zones_percent with percent > 0,
\* numbered in order
ContextZones(stats) ==
  LET kept == SelectSeq(stats.zones_percent, LAMBDA e : e.percent > 0)
  IN [idx \in 1..Len(kept) |->
        [id |-> idx,
         label |-> kept[idx].zone,
         area_ha |-> IF (stats.area_ha * kept[idx].percent) \div 10000 > MinZoneAreaHa
                       THEN (stats.area_ha * kept[idx].percent) \div 10000
                       ELSE MinZoneAreaHa,
         percentage |-> kept[idx].percent,
         mean_NDVI |-> FixedZoneMean(kept[idx].zone)]]

\* the context: MapPage's arguments passed through buildAnalysisContext
\* (zonation_results_VRA is set only for a non-empty zones array)
buildAnalysisContext(stats) ==
  [field_info |-> [area_ha |-> stats.area_ha],
   analysis_info |-> [date_of_scan |-> stats.capture_date, satellite |-> "Sentinel-2"],
   indices_summary |->
     [NDVI |-> [mean |-> stats.mean_ndvi,
                std_dev |-> 0,
                min |-> NumOr(stats.min_ndvi, 0),
                max |-> NumOr(stats.max_ndvi, 100)]],
   zonation_results_VRA |->
     IF Len(ContextZones(stats)) > 0
       THEN Some([zones |-> [i \in 1..Len(ContextZones(stats)) |->
                    [id |-> ContextZones(stats)[i].id,
                     label |-> ContextZones(stats)[i].label,
                     area_ha |-> ContextZones(stats)[i].area_ha,
                     percentage |-> ContextZones(stats)[i].percentage,
                     mean_NDVI |-> ContextZones(stats)[i].mean_NDVI]]])
       ELSE Null]

AcIdle == acResult = Null /\ acContext = Null

AcInit ==
  /\ acResult \in {Some([pixels |-> px, stats |-> AnalysisStats(px)]) :
                     px \in [1..FieldPixels -> PixelValues]}
  /\ acContext = Null

\* the AI panel is shown: MapPage builds the context from analysisResult
AcBuildContext ==
  /\ acResult # Null
  /\ acContext = Null
  /\ acContext' = Some(buildAnalysisContext(acResult[1].stats))
  /\ UNCHANGED acResult

(***************************************************************************)
(* ZoneMapLayer (ZoneMapLayer.jsx) and ZoneLegend (ZoneLegend.jsx)         *)
(***************************************************************************)
Red == "#d32f2f"
Orange == "#f57c00"
Yellow == "#fbc02d"
LightGreen == "#7cb342"
DarkGreen == "#388e3c"
Grey == "#95a5a6"

\* colorPalettes[numZones] || colorPalettes[4], the fill colours
ColorPalette(num_zones) ==
  CASE num_zones = 3 -> <<Red, Yellow, DarkGreen>>
    [] num_zones = 5 -> <<Red, Orange, Yellow, LightGreen, DarkGreen>>
    [] OTHER -> <<Red, Orange, Yellow, LightGreen>>

\* styleZones(feature).fillColor
styleZones(num_zones, zoneId) ==
  IF zoneId \in 1..Len(ColorPalette(num_zones))
    THEN ColorPalette(num_zones)[zoneId]
    ELSE Grey

\* zoneColors[zoneId] of the legend ("": undefined)
zoneColors(zoneId) ==
  CASE zoneId = 1 -> Red [] zoneId = 2 -> Orange [] zoneId = 3 -> Yellow
    [] zoneId = 4 -> LightGreen [] zoneId = 5 -> DarkGreen [] OTHER -> ""

ZcIdle == zcNumZones = 0 /\ zcZoneId = 0 /\ zcFill = Null /\ zcLegend = Null

ZcInit ==
  /\ zcNumZones \in 1..MaxShownZones
  /\ zcZoneId \in 1..MaxShownZones
  /\ zcFill = Null
  /\ zcLegend = Null

\* the map layer styles a polygon of the zone
ZcStyleFeature ==
  /\ zcFill = Null
  /\ zcFill' = Some(styleZones(zcNumZones, zcZoneId))
  /\ UNCHANGED <<zcNumZones, zcZoneId, zcLegend>>

\* the legend renders the row of the zone (rows 1..numZones)
ZcRenderLegendRow ==
  /\ zcLegend = Null
  /\ zcZoneId <= zcNumZones
  /\ zcLegend' = Some(zoneColors(zcZoneId))
  /\ UNCHANGED <<zcNumZones, zcZoneId, zcFill>>

(***************************************************************************)
(* AIReportViewer (part_000): parseMarkdown and the injected HTML.         *)
(* A report is a sequence of lines joined by single newlines; a line is a  *)
(* block prefix and one inline item.  HTML is a sequence of pieces: text,  *)
(* or a tag as the browser reads it from the string.                       *)
(***************************************************************************)
\* the block prefixes: none, "---", "### ", "#### ", "*   ", "* ", "1. "
Blocks == {"p", "hr", "h3", "h4", "li2", "li", "oli"}

\* the inline items: plain text, text in ** **, in * *, in ``` ```, and
\* markup written in the report text itself
InlineItems ==
  {[kind |-> "text"], [kind |-> "bold"], [kind |-> "italic"], [kind |-> "code"],
   [kind |-> "html", name |-> "img"], [kind |-> "html", name |-> "script"]}

MarkdownLines ==
  {[block |-> "hr"]} \cup [block : Blocks \ {"hr"}, inline : InlineItems]

Text == [kind |-> "text"]
Open(name) == [kind |-> "tag", name |-> name, close |-> FALSE]
Close(name) == [kind |-> "tag", name |-> name, close |-> TRUE]
Around(name, pieces) == <<Open(name)>> \o pieces \o <<Close(name)>>

\* the replacements that act inside a line; every $1 is copied as it is,
\* so markup in the text stays markup
InlineHtml(item) ==
  CASE item.kind = "text" -> <<Text>>
    [] item.kind = "bold" -> Around("strong", <<Text>>)
    [] item.kind = "italic" -> Around("em", <<Text>>)
    [] item.kind = "code" -> Around("pre", Around("code", <<Text>>))
    [] item.kind = "html" -> <<Open(item.name)>>

\* the line after the rule, header and list-item replacements
BlockHtml(line) ==
  CASE line.block = "hr" -> <<Open("hr")>>
    [] line.block = "p" -> InlineHtml(line.inline)
    [] line.block \in {"h3", "h4"} -> Around(line.block, InlineHtml(line.inline))
    [] line.block \in {"li2", "li", "oli"} -> Around("li", InlineHtml(line.inline))

\* <li ...> lines, and <li> lines without a class
IsItem(md, i) == i \in 1..Len(md) /\ md[i].block \in {"li2", "li"}
IsPlainItem(md, i) == i \in 1..Len(md) /\ md[i].block \in {"li", "oli"}

\* the runs the two wrapping replacements match: consecutive <li ...>
\* lines for <ul>, and consecutive <li> lines with nothing between them
\* for <ol> (the callback never sees a match that starts with <ul>)
UlStart(md, i) == IsItem(md, i) /\ ~IsItem(md, i - 1)
UlEnd(md, i) == IsItem(md, i) /\ ~IsItem(md, i + 1)
OlJoin(md, i) ==
  IsPlainItem(md, i) /\ IsPlainItem(md, i + 1) /\ ~UlEnd(md, i) /\ ~UlStart(md, i + 1)
OlStart(md, i) == IsPlainItem(md, i) /\ ~(i > 1 /\ OlJoin(md, i - 1))
OlEnd(md, i) == IsPlainItem(md, i) /\ ~OlJoin(md, i)

If(cond, pieces) == IF cond THEN pieces ELSE <<>>

\* line i with its wrappers; a run takes its trailing newline with it, so
\* the closing tags follow the line break
LineHtml(md, i) ==
  If(UlStart(md, i), <<Open("ul")>>)
  \o If(OlStart(md, i), <<Open("ol")>>)
  \o BlockHtml(md[i])
  \o If(i < Len(md), <<Open("br")>>)
  \o If(OlEnd(md, i), <<Close("ol")>>)
  \o If(UlEnd(md, i), <<Close("ul")>>)

RECURSIVE ConcatLines(_, _)
ConcatLines(md, i) ==
  IF i > Len(md) THEN <<>> ELSE LineHtml(md, i) \o ConcatLines(md, i + 1)

\* parseMarkdown: '' for an empty report
parseMarkdown(md) == IF md = <<>> THEN <<>> ELSE ConcatLines(md, 1)

MdIdle == mdMarkdown = <<>> /\ mdHtml = Null

MdInit ==
  /\ mdMarkdown \in UNION {[1..n -> MarkdownLines] : n \in 0..MaxLines}
  /\ mdHtml = Null

\* the viewer renders: htmlContent goes into dangerouslySetInnerHTML
MdRender ==
  /\ mdHtml = Null
  /\ mdHtml' = Some(parseMarkdown(mdMarkdown))
  /\ UNCHANGED mdMarkdown

(***************************************************************************)
(* AIAgronomistPanel (part_002).  Message timestamps are left out.         *)
(***************************************************************************)
ErrApReport == "could not generate the report"
ErrApChat == "could not get an answer"
\* the TypeError of reading a property of null
ErrApTypeError == "Cannot read properties of null"

\* what the user may type into the question input
QuestionInputs == {"", " ", "why", " why "}

\* String.prototype.trim
Trim(str) == IF str \in {"", " "} THEN "" ELSE "why"

\* response.data of /api/v1/analysis/ai_report: a report, or no body
ReportResponses ==
  {Some([report_markdown |-> "report", generation_time_seconds |-> 12, model_used |-> "model"]),
   Null}

\* response.data.answer of /api/v1/analysis/ai_chat
ChatAnswers == {"answer"}

\* the error the catch blocks of the panel set
PanelError(err, defaultMessage) ==
  [message |-> OrElse(err.message, defaultMessage),
   type |-> IF err.errorType = Null THEN "unknown" ELSE err.errorType[1]]

ApIdle ==
  /\ apStatus = "" /\ apError = Null /\ reportData = Null /\ chatHistory = <<>>
  /\ currentQuestion = "" /\ isChatLoading = FALSE /\ apReports = 0 /\ apChats = 0

ApInit ==
  /\ apStatus = "idle"
  /\ apError = Null
  /\ reportData = Null
  /\ chatHistory = <<>>
  /\ currentQuestion = ""
  /\ isChatLoading = FALSE
  /\ apReports = 0
  /\ apChats = 0

\* handleGenerateReport up to its await; its buttons are rendered while
\* status is 'idle' (generate) or 'error' (retry)
handleGenerateReport ==
  /\ apStatus \in {"idle", "error"}
  /\ apStatus' = "loading"
  /\ apError' = Null
  /\ apReports' = apReports + 1
  /\ UNCHANGED <<reportData, chatHistory, currentQuestion, isChatLoading, apChats>>

\* a variant of the fulfilled continuation that leaves chatHistory alone
ReportFulfilled_NoHistory(response) ==
  /\ apReports > 0
  /\ apReports' = apReports - 1
  /\ reportData' = response
  /\ IF response # Null
       THEN apStatus' = "success" /\ UNCHANGED apError
       ELSE /\ apStatus' = "error"
            /\ apError' = Some([message |-> ErrApTypeError, type |-> "unknown"])
  /\ UNCHANGED <<chatHistory, currentQuestion, isChatLoading, apChats>>

\* handleGenerateReport after its await, fulfilled: with a report the
\* three setters run; without a body response.report_markdown throws after
\* the first two and the catch sets the error
ReportFulfilled(response) ==
  /\ apReports > 0
  /\ apReports' = apReports - 1
  /\ reportData' = response
  /\ IF response # Null
       THEN /\ apStatus' = "success"
            /\ chatHistory' = <<[role |-> "assistant", content |-> response[1].report_markdown]>>
            /\ UNCHANGED apError
       ELSE /\ apStatus' = "error"
            /\ apError' = Some([message |-> ErrApTypeError, type |-> "unknown"])
            /\ UNCHANGED chatHistory
  /\ UNCHANGED <<currentQuestion, isChatLoading, apChats>>

\* handleGenerateReport after its await, rejected
ReportRejected(axiosError) ==
  /\ apReports > 0
  /\ apReports' = apReports - 1
  /\ apError' = Some(PanelError(HandleError(axiosError, "Failed to generate AI report"),
                                ErrApReport))
  /\ apStatus' = "error"
  /\ UNCHANGED <<reportData, chatHistory, currentQuestion, isChatLoading, apChats>>

\* onChange of the question input (rendered with the chat, disabled while
\* isChatLoading)
ApSetQuestion(text) ==
  /\ apStatus = "success" /\ reportData # Null
  /\ ~isChatLoading
  /\ currentQuestion' = text
  /\ UNCHANGED <<apStatus, apError, reportData, chatHistory, isChatLoading, apReports, apChats>>

\* handleSendQuestion up to its await: the submit event of the chat form,
\* which is rendered while status is 'success' with a report
handleSendQuestion ==
  /\ apStatus = "success" /\ reportData # Null
  /\ Len(chatHistory) < MaxChatMessages
  /\ IF Trim(currentQuestion) = "" \/ isChatLoading
       THEN UNCHANGED <<chatHistory, currentQuestion, isChatLoading, apError, apChats>>
       ELSE /\ chatHistory' = Append(chatHistory,
                                     [role |-> "user", content |-> Trim(currentQuestion)])
            /\ currentQuestion' = ""
            /\ isChatLoading' = TRUE
            /\ apError' = Null
            /\ apChats' = apChats + 1
  /\ UNCHANGED <<apStatus, reportData, apReports>>

\* handleSendQuestion after its await, fulfilled
ChatFulfilled(answer) ==
  /\ apChats > 0
  /\ apChats' = apChats - 1
  /\ chatHistory' = Append(chatHistory, [role |-> "assistant", content |-> answer])
  /\ isChatLoading' = FALSE
  /\ UNCHANGED <<apStatus, apError, reportData, currentQuestion, apReports>>

\* handleSendQuestion after its await, rejected: the user's message stays
ChatRejected(axiosError) ==
  /\ apChats > 0
  /\ apChats' = apChats - 1
  /\ apError' = Some(PanelError(HandleError(axiosError, "Failed to send chat message"),
                                ErrApChat))
  /\ isChatLoading' = FALSE
  /\ UNCHANGED <<apStatus, reportData, chatHistory, currentQuestion, apReports>>

(***************************************************************************)
(* AuthProvider (part_014), the routes of AppContent (App.jsx), the        *)
(* response interceptor of api.js, LoginForm (RegisterForm.jsx) and the    *)
(* logout buttons (Header.jsx, ProfilePage.jsx)                            *)
(***************************************************************************)
Paths == {"/auth", "/", "/map", "/dashboard", "/profile"}
ProtectedPages == {"HomePage", "MapPage", "DashboardPage", "ProfilePage"}

\* the element of the route that matches path: a page, or a Navigate
RouteElement(path, authenticated) ==
  CASE path = "/auth" ->
         IF authenticated THEN [navigate |-> "/"] ELSE [page |-> "AuthPage"]
    [] path = "/" ->
         IF authenticated THEN [page |-> "HomePage"] ELSE [navigate |-> "/auth"]
    [] path = "/map" ->
         IF authenticated THEN [page |-> "MapPage"] ELSE [navigate |-> "/auth"]
    [] path = "/dashboard" ->
         IF authenticated THEN [page |-> "DashboardPage"] ELSE [navigate |-> "/auth"]
    [] path = "/profile" ->
         IF authenticated THEN [page |-> "ProfilePage"] ELSE [navigate |-> "/auth"]

\* where the router settles: a Navigate element replaces the location and
\* the routes are matched again
SettledPath(path, authenticated) ==
  LET element == RouteElement(path, authenticated)
  IN IF "navigate" \in DOMAIN element THEN element.navigate ELSE path

\* the render that follows a state change
Render(path, authenticated) ==
  /\ auPath' = SettledPath(path, authenticated)
  /\ auPage' = RouteElement(SettledPath(path, authenticated), authenticated).page

\* what localStorage holds when the application is opened
StoredTokens == {Null, Some("stored-token")}
\* data.access_token of a login response
LoginToken == "login-token"
\* data.detail of a failed login ("": none), the message of a thrown error
LoginDetails == {"", "Incorrect email or password"}
ErrLoginDefault == "Login failed"
ErrFetch == "Failed to fetch"
\* how an awaited response ends: ok, not ok, or the fetch rejects
FetchOutcomes == {"ok", "notOk", "throws"}

\* no login call is pending
NoLogin == [at |-> "", loggedOut |-> FALSE]

AuIdle ==
  /\ lsAccessToken = Null /\ auUser = Null /\ isAuthenticated = FALSE /\ auLoading = FALSE
  /\ auError = Null /\ checkAuthPending = FALSE /\ loginPending = NoLogin /\ loginResult = Null
  /\ auPath = "" /\ auPage = "" /\ auSignedOut = FALSE

\* the application is opened at a path: the state after the first render
\* and the mount effect up to its await
AuInit ==
  /\ lsAccessToken \in StoredTokens
  /\ auUser = Null
  /\ isAuthenticated = FALSE
  /\ auLoading = (lsAccessToken # Null)
  /\ auError = Null
  /\ checkAuthPending = (lsAccessToken # Null)
  /\ loginPending = NoLogin
  /\ loginResult = Null
  /\ \E path \in Paths :
       /\ auPath = SettledPath(path, FALSE)
       /\ auPage = RouteElement(SettledPath(path, FALSE), FALSE).page
  /\ auSignedOut = FALSE

\* checkAuth after its await
CheckAuthSettles(outcome) ==
  /\ checkAuthPending
  /\ checkAuthPending' = FALSE
  /\ IF outcome = "ok"
       THEN /\ auUser' = Some("user")
            /\ isAuthenticated' = TRUE
            /\ UNCHANGED lsAccessToken
       ELSE /\ lsAccessToken' = Null
            /\ UNCHANGED <<auUser, isAuthenticated>>
  /\ auLoading' = FALSE
  /\ Render(auPath, isAuthenticated')
  /\ UNCHANGED <<auError, loginPending, loginResult, auSignedOut>>

\* login(email, password) up to its first await; LoginForm is rendered on
\* the AuthPage and its button is disabled while its call is pending
login ==
  /\ auPage = "AuthPage"
  /\ loginPending = NoLogin
  /\ auLoading' = TRUE
  /\ auError' = Null
  /\ loginPending' = [at |-> "login",
                      loggedOut |-> lsAccessToken = Null /\ ~isAuthenticated /\ auUser = Null]
  /\ loginResult' = Null
  /\ auSignedOut' = FALSE
  /\ UNCHANGED <<lsAccessToken, auUser, isAuthenticated, checkAuthPending, auPath, auPage>>

\* login after the await of /api/v1/auth/login
LoginResponds(outcome, detail) ==
  /\ loginPending.at = "login"
  /\ IF outcome = "ok"
       THEN /\ lsAccessToken' = Some(LoginToken)
            /\ loginPending' = [loginPending EXCEPT !.at = "me"]
            /\ UNCHANGED <<auError, auLoading, loginResult>>
       ELSE LET message == IF outcome = "throws" THEN ErrFetch
                           ELSE OrElse(detail, ErrLoginDefault)
            IN /\ auError' = Some(message)
               /\ auLoading' = FALSE
               /\ loginResult' = Some([success |-> FALSE, error |-> message])
               /\ loginPending' = NoLogin
               /\ UNCHANGED lsAccessToken
  /\ UNCHANGED <<auUser, isAuthenticated, checkAuthPending, auPath, auPage, auSignedOut>>

\* login after the await of /api/v1/auth/me
LoginUserResponds(outcome) ==
  /\ loginPending.at = "me"
  /\ loginPending' = NoLogin
  /\ auLoading' = FALSE
  /\ CASE outcome = "ok" ->
            /\ auUser' = Some("user")
            /\ isAuthenticated' = TRUE
            /\ loginResult' = Some([success |-> TRUE, error |-> ""])
            /\ UNCHANGED auError
       [] outcome = "notOk" ->
            /\ loginResult' = Some([success |-> TRUE, error |-> ""])
            /\ UNCHANGED <<auUser, isAuthenticated, auError>>
       [] outcome = "throws" ->
            /\ auError' = Some(ErrFetch)
            /\ loginResult' = Some([success |-> FALSE, error |-> ErrFetch])
            /\ UNCHANGED <<auUser, isAuthenticated>>
  /\ Render(auPath, isAuthenticated')
  /\ UNCHANGED <<lsAccessToken, checkAuthPending, auSignedOut>>

\* handleLogout of the Header or the ProfilePage, confirmed: logout(), then
\* navigate('/auth')
logout ==
  /\ auPage \in ProtectedPages
  /\ lsAccessToken' = Null
  /\ auUser' = Null
  /\ isAuthenticated' = FALSE
  /\ auError' = Null
  /\ Render("/auth", FALSE)
  /\ auSignedOut' = TRUE
  /\ UNCHANGED <<auLoading, checkAuthPending, loginPending, loginResult>>

\* the response interceptor: a request of a protected page is answered 401;
\* the token is removed and the page reloads, which mounts the application
\* anew at the same path
Unauthorized ==
  /\ auPage \in ProtectedPages
  /\ lsAccessToken' = Null
  /\ auUser' = Null
  /\ isAuthenticated' = FALSE
  /\ auLoading' = FALSE
  /\ auError' = Null
  /\ checkAuthPending' = FALSE
  /\ loginPending' = NoLogin
  /\ loginResult' = Null
  /\ Render(auPath, FALSE)
  /\ auSignedOut' = TRUE

\* the user follows a link or enters a path
AuNavigate(path) ==
  /\ path # auPath
  /\ Render(path, isAuthenticated)
  /\ UNCHANGED <<lsAccessToken, auUser, isAuthenticated, auLoading, auError, checkAuthPending,
                 loginPending, loginResult, auSignedOut>>

\* the last login call resolved with success
LoggedIn == IF loginResult = Null THEN FALSE ELSE loginResult[1].success

\* every later component at rest
RestIdle == ZrIdle /\ FzIdle /\ MpIdle /\ AiIdle /\ AcIdle /\ ZcIdle /\ MdIdle /\ ApIdle /\ AuIdle

(***************************************************************************)
(* Specifications                                                          *)
(***************************************************************************)
\* a session of the TimeSeriesModal
Init == TsInit /\ focus \in Focuses /\ UcIdle /\ FeIdle /\ AsmIdle /\ ZnIdle /\ RestIdle
Next == TsNext
Spec == Init /\ [][Next]_vars

\* updateChartWithForecast on every forecast response of the bounded family
ChartInit == UcInit /\ TsIdle /\ FeIdle /\ AsmIdle /\ ZnIdle /\ RestIdle
ChartNext == UcCall /\ UNCHANGED <<tsVars, focus, feVars, asmVars, znVars, restVars>>
SpecChart == ChartInit /\ [][ChartNext]_vars

\* forecast requests to the ForecastEngine
ForecastInit == FeInit /\ TsIdle /\ UcIdle /\ AsmIdle /\ ZnIdle /\ RestIdle
ForecastNext == FeForecast /\ UNCHANGED <<tsVars, focus, ucVars, asmVars, znVars, restVars>>
SpecForecast == ForecastInit /\ [][ForecastNext]_vars

\* one series request to the TimeSeriesAssembler, its ImageSource calls
\* running concurrently and settling in any order
asmFrame == <<tsVars, focus, ucVars, feVars, znVars, restVars>>
AssemblerInit == AsmInit /\ TsIdle /\ UcIdle /\ FeIdle /\ ZnIdle /\ RestIdle
AssemblerNext ==
  \/ \E d \in AsmDates : AsmStartFetch(d) /\ UNCHANGED asmFrame
  \/ \E d \in AsmDates, value \in AsmValues, cloud \in AsmClouds :
       AsmFetchCompletes(d, value, cloud) /\ UNCHANGED asmFrame
  \/ \E d \in AsmDates : AsmFetchFails(d) /\ UNCHANGED asmFrame
  \/ AsmAssemble /\ UNCHANGED asmFrame
SpecAssembler == AssemblerInit /\ [][AssemblerNext]_vars

\* zone requests to the ZoningEngine
znFrame == <<tsVars, focus, ucVars, feVars, asmVars, restVars>>
ZoningInit == ZnInit /\ TsIdle /\ UcIdle /\ FeIdle /\ AsmIdle /\ RestIdle
ZoningNext ==
  \/ ZnValidateAndSeed /\ UNCHANGED znFrame
  \/ ZnLloydStep /\ UNCHANGED znFrame
  \/ ZnRelabel /\ UNCHANGED znFrame
SpecZoning == ZoningInit /\ [][ZoningNext]_vars

\* two calls of the ZoningEngine on identical input, in any interleaving
zrFrame == <<tsVars, focus, ucVars, feVars, asmVars, fzVars, mpVars, aiVars, acVars, zcVars, mdVars, apVars, auVars>>
RezoningInit == ZnInit /\ ZrIdle /\ TsIdle /\ UcIdle /\ FeIdle /\ AsmIdle /\ FzIdle /\ MpIdle /\ AiIdle /\ AcIdle /\ ZcIdle /\ MdIdle /\ ApIdle /\ AuIdle
RezoningNext ==
  \/ ZnValidateAndSeed /\ UNCHANGED <<zrFrame, zrVars>>
  \/ ZnLloydStep /\ UNCHANGED <<zrFrame, zrVars>>
  \/ ZnRelabel /\ UNCHANGED <<zrFrame, zrVars>>
  \/ ZnRepeat /\ UNCHANGED zrFrame
SpecRezoning == RezoningInit /\ [][RezoningNext]_vars

\* a session of the FieldZoningTool
fzFrame == <<tsVars, focus, ucVars, feVars, asmVars, znVars, zrVars, mpVars, aiVars, acVars, zcVars, mdVars, apVars, auVars>>
ZoningToolInit == FzInit /\ TsIdle /\ UcIdle /\ FeIdle /\ AsmIdle /\ ZnIdle /\ ZrIdle /\ MpIdle /\ AiIdle /\ AcIdle /\ ZcIdle /\ MdIdle /\ ApIdle /\ AuIdle
ZoningToolNext ==
  \/ \E value \in SliderValues : setNumZones(value) /\ UNCHANGED fzFrame
  \/ \E token \in FzTokens : FzSetToken(token) /\ UNCHANGED fzFrame
  \/ handleCreateZones /\ UNCHANGED fzFrame
  \/ FzResponseOk /\ UNCHANGED fzFrame
  \/ \E detail \in FzDetails : FzResponseNotOk(detail) /\ UNCHANGED fzFrame
SpecZoningTool == ZoningToolInit /\ [][ZoningToolNext]_vars

\* a session of the MapPage with its Sidebar, and of the dashboard
mpFrame == <<tsVars, focus, ucVars, feVars, asmVars, znVars, zrVars, fzVars, aiVars, acVars, zcVars, mdVars, apVars, auVars>>
MapPageInit ==
  MpInit /\ TsIdle /\ UcIdle /\ FeIdle /\ AsmIdle /\ ZnIdle /\ ZrIdle /\ FzIdle /\ AiIdle /\ AcIdle /\ ZcIdle /\ MdIdle /\ ApIdle /\ AuIdle
MapPageNext ==
  \/ \E geometry \in Geometries : handleGeometrySelected(geometry) /\ UNCHANGED mpFrame
  \/ handleClearSelection /\ UNCHANGED mpFrame
  \/ \E indexName \in SidebarIndexNames : handleIndexToggle(indexName) /\ UNCHANGED mpFrame
  \/ handleAnalyze /\ UNCHANGED mpFrame
  \/ AnalyzeFulfilled /\ UNCHANGED mpFrame
  \/ \E detail \in AnalyzeDetails : AnalyzeRejected(detail) /\ UNCHANGED mpFrame
  \/ \E item \in DashboardItems : DwMount(item) /\ UNCHANGED mpFrame
  \/ \E ok \in BOOLEAN : DwSettled(ok) /\ UNCHANGED mpFrame
SpecMapPage == MapPageInit /\ [][MapPageNext]_vars

\* MapPage with the TimeSeriesModal open: the requests of the Sidebar and of
\* the modal, each of which settles (the HTTP client fulfils or rejects every
\* request, at the latest on its timeout)
RequestsInit ==
  /\ MpInit /\ TsInit /\ focus = "requests" /\ ApIdle /\ AuIdle
  /\ UcIdle /\ FeIdle /\ AsmIdle /\ ZnIdle /\ ZrIdle /\ FzIdle /\ AiIdle /\ AcIdle /\ ZcIdle /\ MdIdle
SidebarSettles ==
  (AnalyzeFulfilled \/ \E detail \in AnalyzeDetails : AnalyzeRejected(detail)) /\ UNCHANGED mpFrame
AnalysisSettles == (AnalysisFulfilled \/ AnalysisRejected) /\ UNCHANGED tsFrame
ForecastSettles == (ForecastFulfilled \/ ForecastRejected) /\ UNCHANGED tsFrame
RequestsNext ==
  \/ handleGeometrySelected("polygonA") /\ UNCHANGED mpFrame
  \/ handleAnalyze /\ UNCHANGED mpFrame
  \/ AnalyzeFulfilled /\ UNCHANGED mpFrame
  \/ \E detail \in AnalyzeDetails : AnalyzeRejected(detail) /\ UNCHANGED mpFrame
  \/ handleAnalyzeDynamics /\ UNCHANGED tsFrame
  \/ ReturnToOriginal /\ UNCHANGED tsFrame
  \/ AnalysisFulfilled /\ UNCHANGED tsFrame
  \/ AnalysisRejected /\ UNCHANGED tsFrame
  \/ handleGenerateForecast /\ UNCHANGED tsFrame
  \/ ForecastFulfilled /\ UNCHANGED tsFrame
  \/ ForecastRejected /\ UNCHANGED tsFrame
SpecRequests ==
  /\ RequestsInit /\ [][RequestsNext]_vars
  /\ WF_vars(SidebarSettles) /\ WF_vars(AnalysisSettles) /\ WF_vars(ForecastSettles)

\* the AI panel, opened on an analysis result
apFrame == <<tsVars, focus, ucVars, feVars, asmVars, znVars, zrVars, fzVars, mpVars, aiVars, acVars, zcVars, mdVars, auVars>>
PanelInit == ApInit /\ TsIdle /\ UcIdle /\ FeIdle /\ AsmIdle /\ ZnIdle /\ ZrIdle /\ FzIdle /\ MpIdle /\ AiIdle /\ AcIdle /\ ZcIdle /\ MdIdle /\ AuIdle
PanelNext ==
  \/ handleGenerateReport /\ UNCHANGED apFrame
  \/ \E response \in ReportResponses : ReportFulfilled(response) /\ UNCHANGED apFrame
  \/ \E axiosError \in AxiosErrors : ReportRejected(axiosError) /\ UNCHANGED apFrame
  \/ \E text \in QuestionInputs : ApSetQuestion(text) /\ UNCHANGED apFrame
  \/ handleSendQuestion /\ UNCHANGED apFrame
  \/ \E answer \in ChatAnswers : ChatFulfilled(answer) /\ UNCHANGED apFrame
  \/ \E axiosError \in AxiosErrors : ChatRejected(axiosError) /\ UNCHANGED apFrame
SpecPanel == PanelInit /\ [][PanelNext]_vars

\* the application from its opening: the session check, logins, logouts,
\* 401 reloads and navigation, and the FieldZoningTool used after a login
auFrame == <<tsVars, focus, ucVars, feVars, asmVars, znVars, zrVars, fzVars, mpVars, aiVars, acVars, zcVars, mdVars, apVars>>
AuthInit == AuInit /\ FzInit /\ TsIdle /\ UcIdle /\ FeIdle /\ AsmIdle /\ ZnIdle /\ ZrIdle /\ MpIdle /\ AiIdle /\ AcIdle /\ ZcIdle /\ MdIdle /\ ApIdle
AuthNext ==
  \/ \E outcome \in FetchOutcomes : CheckAuthSettles(outcome) /\ UNCHANGED auFrame
  \/ login /\ UNCHANGED auFrame
  \/ \E outcome \in FetchOutcomes, detail \in LoginDetails :
       LoginResponds(outcome, detail) /\ UNCHANGED auFrame
  \/ \E outcome \in FetchOutcomes : LoginUserResponds(outcome) /\ UNCHANGED auFrame
  \/ logout /\ UNCHANGED auFrame
  \/ Unauthorized /\ UNCHANGED auFrame
  \/ \E path \in Paths : AuNavigate(path) /\ UNCHANGED auFrame
  \/ LoggedIn /\ handleCreateZones /\ UNCHANGED fzFrame
  \/ FzResponseOk /\ UNCHANGED fzFrame
  \/ \E detail \in FzDetails : FzResponseNotOk(detail) /\ UNCHANGED fzFrame
SpecAuth == AuthInit /\ [][AuthNext]_vars

\* failed requests of the AIService
aiFrame == <<tsVars, focus, ucVars, feVars, asmVars, znVars, zrVars, fzVars, mpVars, acVars, zcVars, mdVars, apVars, auVars>>
ErrorsInit == AiInit /\ TsIdle /\ UcIdle /\ FeIdle /\ AsmIdle /\ ZnIdle /\ ZrIdle /\ FzIdle /\ MpIdle /\ AcIdle /\ ZcIdle /\ MdIdle /\ ApIdle /\ AuIdle
ErrorsNext == AiRequestFails /\ UNCHANGED aiFrame
SpecErrors == ErrorsInit /\ [][ErrorsNext]_vars

\* the AI panel's context for the analysis results of small fields
acFrame == <<tsVars, focus, ucVars, feVars, asmVars, znVars, zrVars, fzVars, mpVars, aiVars, zcVars, mdVars, apVars, auVars>>
ContextInit == AcInit /\ TsIdle /\ UcIdle /\ FeIdle /\ AsmIdle /\ ZnIdle /\ ZrIdle /\ FzIdle /\ MpIdle /\ AiIdle /\ ZcIdle /\ MdIdle /\ ApIdle /\ AuIdle
ContextNext == AcBuildContext /\ UNCHANGED acFrame
SpecContext == ContextInit /\ [][ContextNext]_vars

\* the map layer and the legend showing one zone
zcFrame == <<tsVars, focus, ucVars, feVars, asmVars, znVars, zrVars, fzVars, mpVars, aiVars, acVars, mdVars, apVars, auVars>>
ColoursInit == ZcInit /\ TsIdle /\ UcIdle /\ FeIdle /\ AsmIdle /\ ZnIdle /\ ZrIdle /\ FzIdle /\ MpIdle /\ AiIdle /\ AcIdle /\ MdIdle /\ ApIdle /\ AuIdle
ColoursNext ==
  \/ ZcStyleFeature /\ UNCHANGED zcFrame
  \/ ZcRenderLegendRow /\ UNCHANGED zcFrame
SpecColours == ColoursInit /\ [][ColoursNext]_vars

\* the AIReportViewer rendering the reports of up to MaxLines lines
mdFrame == <<tsVars, focus, ucVars, feVars, asmVars, znVars, zrVars, fzVars, mpVars, aiVars, acVars, zcVars, apVars, auVars>>
MarkdownInit == MdInit /\ TsIdle /\ UcIdle /\ FeIdle /\ AsmIdle /\ ZnIdle /\ ZrIdle /\ FzIdle /\ MpIdle /\ AiIdle /\ AcIdle /\ ZcIdle /\ ApIdle /\ AuIdle
MarkdownNext == MdRender /\ UNCHANGED mdFrame
SpecMarkdown == MarkdownInit /\ [][MarkdownNext]_vars

(***************************************************************************)
(* Claims                                                                  *)
(***************************************************************************)

\* C1: whenever the loaded series of the first selected index has fewer
\* than 10 points, handleGenerateForecast sends no forecast request, sets
\* the insufficient-history error and leaves forecastData, showForecast and
\* chartData unchanged.
C1_ShortHistorySendsNothing ==
  [][ ( /\ lastOp' = "handleGenerateForecast"
        /\ rawData # Null
        /\ Len(rawData[1]) > 0
        /\ Len(rawData[1][1].dates) < MinHistoryPoints )
      => ( /\ pendingForecast = Null
           /\ pendingForecast' = Null
           /\ isForecastLoading' = isForecastLoading
           /\ error' = Some(ErrInsufficientHistory)
           /\ forecastData' = forecastData
           /\ showForecast' = showForecast
           /\ chartData' = chartData ) ]_vars

\* C1 witness: handleGenerateForecast has just refused a loaded series of
\* fewer than 10 points
C1_Witness ==
  /\ lastOp = "handleGenerateForecast"
  /\ rawData # Null
  /\ Len(rawData[1][1].dates) > 0
  /\ Len(rawData[1][1].dates) < MinHistoryPoints
  /\ error = Some(ErrInsufficientHistory)
  /\ pendingForecast = Null

\* C2 (as claimed): the forecast_horizon_days of every forecast request the
\* client sends is an integer in [1,90] (a whole multiple of 10 tenths
\* between 10 and 900).
C2_HorizonInRange ==
  pendingForecast # Null =>
    LET h == pendingForecast[1].request.forecast_horizon_days
    IN h % 10 = 0 /\ 10 <= h /\ h <= 900

\* the number of response points up to i that carry the tag of point i
TagRank(resp, i) ==
  Cardinality({j \in 1..i : resp[j].type = resp[i].type})

\* C4: updateChartWithForecast places every point of the response in
\* exactly one dataset, the one of its tag, keeps response order inside
\* each dataset, creates no dataset for a tag without points, and sets the
\* labels to the dates of all response points in response order.
C4_ChartPartitionsResponse ==
  ucChart # Null =>
    LET resp == ucResponse[1].forecast
        chart == ucChart[1]
        kind(d) == chart.datasets[d].label[2]
        D == 1..Len(chart.datasets)
    IN /\ \A d \in D : kind(d) \in ProvenanceTags /\ Len(chart.datasets[d].data) > 0
       /\ \A d, e \in D : kind(d) = kind(e) => d = e
       /\ \A i \in 1..Len(resp) :
            \E d \in D :
              /\ kind(d) = resp[i].type
              /\ TagRank(resp, i) <= Len(chart.datasets[d].data)
              /\ chart.datasets[d].data[TagRank(resp, i)] =
                   [x |-> resp[i].date, y |-> resp[i].value]
       /\ \A d \in D :
            Len(chart.datasets[d].data) =
              Cardinality({i \in 1..Len(resp) : resp[i].type = kind(d)})
       /\ chart.labels = [i \in 1..Len(resp) |-> resp[i].date]

\* C4 witness: a response that interleaves the three tags has been charted
\* into three datasets
C4_Witness ==
  /\ ucChart # Null
  /\ Len(ucResponse[1].forecast) = 3
  /\ ucResponse[1].forecast[1].type = "Forecast"
  /\ ucResponse[1].forecast[2].type = "Historical"
  /\ ucResponse[1].forecast[3].type = "Interpolated"
  /\ Len(ucChart[1].datasets) = 3

\* C8: whenever a time-series analysis completes with a response whose
\* first series has zero dates, the modal sets the no-data error, stores
\* nothing from that response in rawData or chartData, and ends with
\* isLoading = false.
C8_EmptySeriesIsNoData ==
  [][ \A p \in 1..Len(pendingAnalyses) :
        AnalysisFulfilledWith(p, 0) =>
          ( /\ error' = Some(ErrNoData)
            /\ rawData' = rawData
            /\ chartData' = chartData
            /\ isLoading' = FALSE ) ]_vars

\* C8 witness: an analysis has just completed with an empty series while
\* an earlier chart is on display
C8_Witness ==
  /\ lastOp = "analysisFulfilled"
  /\ error = Some(ErrNoData)
  /\ ~isLoading
  /\ chartData # Null

\* C3: forecast with at least 10 input points and 1 <= h <= 90 returns
\* exactly |series| + h points: first the input points in their original
\* order with date, value and tag unchanged, then h points tagged Forecast,
\* one per consecutive day after the last input date.
C3_ForecastShape ==
  (feResult # Null /\ Len(feSeries) >= 10 /\ 1 <= feHorizon /\ feHorizon <= 90) =>
    /\ feResult[1].kind = "ok"
    /\ LET points == feResult[1].points
           n == Len(feSeries)
       IN /\ Len(points) = n + feHorizon
          /\ \A i \in 1..n :
               /\ points[i].date = feSeries[i].date
               /\ points[i].value = feSeries[i].value
               /\ points[i].provenance = feSeries[i].provenance
               /\ points[i].provenance \in {"Historical", "Interpolated"}
          /\ \A j \in 1..feHorizon :
               /\ points[n + j].provenance = "Forecast"
               /\ points[n + j].date = feSeries[n].date + j

\* C3 witness: 15 points, some of them Interpolated, forecast 7 days ahead
C3_Witness ==
  /\ feResult # Null
  /\ feResult[1].kind = "ok"
  /\ Len(feSeries) = 15
  /\ feHorizon = 7
  /\ \E i \in 1..Len(feSeries) : feSeries[i].provenance = "Interpolated"

\* the Historical points of a series
HistoricalOf(series) == SelectSeq(series, LAMBDA p : p.provenance = "Historical")

\* C5: every Interpolated point of the returned series has a date strictly
\* between two Historical points and its value is the linear interpolation
\* of its nearest Historical neighbours on each side (to within one unit of
\* rounding); no point is emitted before the first or after the last
\* Historical date.
C5_InterpolationOnlyInside ==
  (asmResult # Null /\ asmResult[1].kind = "ok") =>
    LET series == asmResult[1].series
        hist == HistoricalOf(series)
        hdates == {hist[i].date : i \in 1..Len(hist)}
        at(d) == hist[CHOOSE i \in 1..Len(hist) : hist[i].date = d]
    IN /\ hdates # {}
       /\ \A i \in 1..Len(series) :
            /\ series[i].date >= SetMin(hdates)
            /\ series[i].date <= SetMax(hdates)
            /\ series[i].provenance \in {"Historical", "Interpolated"}
            /\ series[i].provenance = "Interpolated" =>
                 LET d == series[i].date
                     a == at(SetMax({e \in hdates : e < d}))
                     b == at(SetMin({e \in hdates : e > d}))
                     exact == a.value * (b.date - a.date)
                                + (b.value - a.value) * (d - a.date)
                     got == series[i].value * (b.date - a.date)
                 IN /\ d \notin hdates
                    /\ got - exact < b.date - a.date
                    /\ exact - got < b.date - a.date

\* C5 witness: a series with interpolated values between two different
\* Historical values, while the first and the last candidate date of the
\* range gave no Historical point
C5_Witness ==
  /\ asmResult # Null
  /\ asmResult[1].kind = "ok"
  /\ \E i \in 1..Len(asmResult[1].series) :
       /\ asmResult[1].series[i].provenance = "Interpolated"
       /\ asmResult[1].series[i].value \notin AsmValues
  /\ asmFetch[SetMin(AsmDates)].state = "error"
  /\ asmFetch[SetMax(AsmDates)].state = "ok"
  /\ asmFetch[SetMax(AsmDates)].cloud >= AsmMaxCloudPercent

\* C6: the returned series is strictly ascending by date (so no date
\* occurs twice), whatever the outcomes of the per-date calls.
C6_StrictlyAscending ==
  (asmResult # Null /\ asmResult[1].kind = "ok") =>
    \A i \in 1..(Len(asmResult[1].series) - 1) :
      asmResult[1].series[i].date < asmResult[1].series[i + 1].date

\* C6 witness: a series assembled from calls that completed out of date
\* order, with a skipped date among them
C6_Witness ==
  /\ asmResult # Null
  /\ asmResult[1].kind = "ok"
  /\ Len(asmHistorical) >= 3
  /\ asmHistorical[1].date > asmHistorical[2].date
  /\ asmSkipped # {}

\* C7: the request fails with NoDataError exactly when no date yields a
\* Historical point; otherwise the series holds a Historical point for
\* every date whose call succeeded below the cloud threshold, however many
\* other dates failed, and every failed date is recorded as skipped.
C7_PartialFailuresKeepSuccesses ==
  asmResult # Null =>
    LET good == {d \in AsmDates : asmFetch[d].state = "ok"
                                  /\ asmFetch[d].cloud < AsmMaxCloudPercent}
        failed == {d \in AsmDates : asmFetch[d].state = "error"}
    IN /\ (asmResult[1].kind = "NoDataError") <=> (good = {})
       /\ asmResult[1].kind \in {"NoDataError", "ok"}
       /\ \A d \in failed : \E sk \in asmResult[1].skipped : sk.date = d
       /\ asmResult[1].kind = "ok" =>
            \A d \in good :
              \E i \in 1..Len(asmResult[1].series) :
                asmResult[1].series[i] =
                  [date |-> d, value |-> asmFetch[d].value, provenance |-> "Historical"]

\* C7 witness: two dates failed, one of them after a later date had already
\* succeeded, and the series still holds the successful dates
C7_Witness ==
  /\ asmResult # Null
  /\ asmResult[1].kind = "ok"
  /\ Cardinality({d \in AsmDates : asmFetch[d].state = "error"}) = 2
  /\ Len(asmHistorical) = 2
  /\ asmHistorical[1].date > asmHistorical[2].date

\* C9: when zoning succeeds, every valid pixel belongs to exactly one zone
\* in 1..k and no invalid pixel belongs to any zone, and the pixel_counts of
\* the k zones sum to the number of valid pixels.
C9_ZonesPartitionValidPixels ==
  (znResult # Null /\ znResult[1].kind = "ok") =>
    LET zones == znResult[1].zones
    IN /\ znK \in {3, 4, 5}
       /\ DOMAIN zones = 1..znK
       /\ \A i \in DOMAIN znRaster :
            Cardinality({z \in DOMAIN zones : i \in zones[z].pixels})
              = IF znMask[i] THEN 1 ELSE 0
       /\ \A z \in DOMAIN zones :
            /\ zones[z].zone_id = z
            /\ zones[z].pixel_count = Cardinality(zones[z].pixels)
       /\ SumOf(DOMAIN zones, [z \in DOMAIN zones |-> zones[z].pixel_count])
            = Cardinality({i \in DOMAIN znMask : znMask[i]})

\* C9 witness: five zones of a raster with invalid pixels whose values also
\* occur among the valid pixels
C9_Witness ==
  /\ znResult # Null
  /\ znResult[1].kind = "ok"
  /\ znK = 5
  /\ \E i \in DOMAIN znMask : ~znMask[i]
  /\ \A i \in DOMAIN znMask : ~znMask[i] =>
       \E j \in DOMAIN znMask : znMask[j] /\ znRaster[j] = znRaster[i]

\* C10: when zoning succeeds, every zone has a mean and the zone means are
\* non-decreasing in zone_id, whatever labels the clustering step used
\* internally.
C10_ZoneMeansAscending ==
  (znResult # Null /\ znResult[1].kind = "ok") =>
    LET zones == znResult[1].zones
    IN /\ \A z \in DOMAIN zones : zones[z].pixel_count > 0
       /\ \A z \in 1..(Len(zones) - 1) :
            zones[z].sum_index * zones[z + 1].pixel_count
              <= zones[z + 1].sum_index * zones[z].pixel_count

\* C10 witness: four zones although the clustering step numbered its
\* clusters from the highest mean to the lowest
C10_Witness ==
  /\ znResult # Null
  /\ znResult[1].kind = "ok"
  /\ znK = 4
  /\ znSeed = "descending"
  /\ \A i, j \in DOMAIN znLabels :
       (znLabels[i] > 0 /\ znLabels[j] > 0 /\ znLabels[i] < znLabels[j])
         => znRaster[i] > znRaster[j]

C12_NumZonesInRange ==
  \A r \in 1..Len(fzRequests) : fzRequests[r].body.num_zones \in {3, 4, 5}

\* C12 witness: the slider was moved to both ends and a request was sent at
\* each
C12_Witness ==
  /\ Len(fzRequests) = 2
  /\ fzRequests[1].body.num_zones = 5
  /\ fzRequests[2].body.num_zones = 3

\* C13: a call of handleCreateZones sends at most one zones request; the
\* request names the prior analysis when one is given, otherwise the saved
\* field, never both; with neither, or without a token, nothing is sent and
\* an error is set.
C13_OneTargetedRequest ==
  [][handleCreateZones =>
       IF fzToken = Null \/ (fzAnalysisId = Null /\ fzFieldId = Null)
         THEN /\ fzRequests' = fzRequests
              /\ fzPending' = fzPending
              /\ fzError' # Null
         ELSE /\ Len(fzRequests') = Len(fzRequests) + 1
              /\ SubSeq(fzRequests', 1, Len(fzRequests)) = fzRequests
              /\ LET body == fzRequests'[Len(fzRequests')].body
                 IN /\ (body.analysis_id # Null) <=> (fzAnalysisId # Null)
                    /\ (body.field_id # Null) <=> (fzAnalysisId = Null)
                    /\ body.analysis_id # Null => body.analysis_id = fzAnalysisId
                    /\ body.field_id # Null => body.field_id = fzFieldId
                    /\ ~(body.analysis_id # Null /\ body.field_id # Null)]_vars

\* C13 witness: both an analysis and a field were given and a request was
\* sent, and a later call without a token ended in the authorization error
C13_Witness ==
  /\ fzAnalysisId # Null
  /\ fzFieldId # Null
  /\ Len(fzRequests) = 1
  /\ fzToken = Null
  /\ fzError = Some(ErrFzAuth)

\* C14: every analyze request the client sends lists 'NDVI' among its
\* indices, from the Sidebar and from the dashboard widgets.  Not an
\* invariant: LatestNdviMapWidget sends the item's index_type alone.
C14_EveryAnalyzeRequestListsNDVI ==
  \A r \in 1..Len(anRequests) : Includes(anRequests[r].indices, "NDVI")

\* C20: a non-null analysisResult is the result of an analysis requested
\* for the currently selected geometry.  Not an invariant: a response that
\* arrives after the selection changed is stored all the same.
C20_ResultBelongsToSelection ==
  analysisResult # Null =>
    (mpSelectedGeometry # Null /\ analysisResult[1].geometry = mpSelectedGeometry[1])

\* C15: when the forecast request runs into its client timeout, AIService
\* raises an error of kind 'timeout', and the modal ends the call with
\* isForecastLoading = false, showForecast = false and rawData and chartData
\* unchanged, the forecast button being available again.
C15_TimeoutIsRetryable ==
  [][ (lastOp' = "forecastRejected" /\ error' = Some(MsgTimeout))
      => ( /\ \A e \in AxiosErrors :
                (e.response = Null /\ e.code = "ECONNABORTED")
                  => HandleError(e, "Failed to generate forecast").errorType = Some("timeout")
           /\ pendingForecast # Null
           /\ pendingForecast' = Null
           /\ isForecastLoading' = FALSE
           /\ showForecast' = FALSE
           /\ rawData' = rawData
           /\ chartData' = chartData
           /\ chartData' # Null ) ]_vars

\* C15 witness: a forecast request has just timed out
C15_Witness ==
  /\ lastOp = "forecastRejected"
  /\ error = Some(MsgTimeout)
  /\ ~isForecastLoading
  /\ pendingForecast = Null
  /\ rawData # Null

\* C16: every error AIService raises carries a machine-readable kind
\* (errorType) and a human-readable message, and the method does not return
\* normally.  Not an invariant: only structured details and timeouts give
\* the error an errorType.
C16_ErrorsCarryKindAndMessage ==
  aiOutcome # Null =>
    /\ ~aiOutcome[1].returned
    /\ aiOutcome[1].thrown.message # ""
    /\ aiOutcome[1].thrown.errorType # Null
    /\ aiOutcome[1].thrown.errorType # Some("")

\* C17: each zone entry of the context carries as mean_NDVI the mean index
\* measured over that zone's pixels (to within 0.01), zone ids are 1..m in
\* order, and the NDVI min and max sent equal the result's min_ndvi and
\* max_ndvi.  Not an invariant: the zone means are constants chosen by
\* label, and a max_ndvi of 0 is sent as 1.
C17_ContextMirrorsResult ==
  acContext # Null =>
    LET stats == acResult[1].stats
        pixels == acResult[1].pixels
        ndvi == acContext[1].indices_summary.NDVI
        zones == IF acContext[1].zonation_results_VRA = Null THEN <<>>
                 ELSE acContext[1].zonation_results_VRA[1].zones
    IN /\ ndvi.min = stats.min_ndvi
       /\ ndvi.max = stats.max_ndvi
       /\ \A i \in 1..Len(zones) :
            LET px == SelectSeq(pixels, LAMBDA v : InZone(v, zones[i].label))
            IN /\ zones[i].id = i
               /\ Len(px) > 0
               /\ zones[i].mean_NDVI * Len(px) - SeqSum(px) <= Len(px)
               /\ SeqSum(px) - zones[i].mean_NDVI * Len(px) <= Len(px)

\* C18: for k in {3,4,5} and zone_id in 1..k the legend's colour of the
\* zone equals the fill colour of the zone's polygons, red at zone 1 and
\* green at zone k.  Not an invariant: for k = 3 the legend shows zones 2
\* and 3 in orange and yellow, the map in yellow and green.
C18_LegendMatchesMap ==
  (zcFill # Null /\ zcLegend # Null /\ zcNumZones \in {3, 4, 5} /\ zcZoneId \in 1..zcNumZones) =>
    /\ zcLegend = zcFill
    /\ zcZoneId = 1 => zcFill = Some(Red)
    /\ zcZoneId = zcNumZones => zcFill \in {Some(LightGreen), Some(DarkGreen)}

\* C19: the HTML injected into the page contains no element other than
\* those the parser itself generates (pre, code, hr, h3, h4, strong, em, li,
\* ul, ol, br).  Not an invariant: markup in the report text is copied into
\* the HTML as it is.
C19_OnlyParserElements ==
  mdHtml # Null =>
    \A i \in 1..Len(mdHtml[1]) :
      mdHtml[1][i].kind = "tag" =>
        mdHtml[1][i].name \in {"pre", "code", "hr", "h3", "h4", "strong", "em",
                               "li", "ul", "ol", "br"}

\* C21: the index_name of a forecast request is the index whose series is
\* sent as that request's historical_data.  Not an invariant: the name is
\* selectedIndices[0] of the click, the series is rawData[0] of the last
\* analysis, and the check boxes may change between the two.
C21_ForecastNamesItsSeries ==
  pendingForecast # Null =>
    LET request == pendingForecast[1].request
    IN request.historical_data =
         HistoricalData(SeriesResponse(request.index_name, Len(request.historical_data)))

\* C22: whenever showForecast is true, forecastData is set and the chart
\* displays that forecast response: the chart labels are its dates.  Not an
\* invariant: the analyze button stays enabled while the forecast is shown,
\* and its response replaces the chart without clearing showForecast.
C22_ShownForecastIsCharted ==
  showForecast =>
    /\ forecastData # Null
    /\ chartData # Null
    /\ chartData[1].labels =
         [i \in 1..Len(forecastData[1].forecast) |-> forecastData[1].forecast[i].date]

\* C23: every loading flag raised for a request (isAnalyzing, isLoading,
\* isForecastLoading) returns to false once the request settles, on success
\* and on every error path; and the Sidebar's callbacks alternate: each
\* onAnalysisStart is followed by exactly one of onAnalysisComplete and
\* onAnalysisError before the next one, and MapPage is analyzing exactly
\* between a start and its completion or error.
CallbacksAlternate ==
  /\ \A i \in 1..Len(sbCallbacks) :
       IF i % 2 = 1 THEN sbCallbacks[i] = "onAnalysisStart"
       ELSE sbCallbacks[i] \in {"onAnalysisComplete", "onAnalysisError"}
  /\ (Len(sbCallbacks) % 2 = 1) = (anPending # Null)
  /\ isAnalyzing = (anPending # Null)

C23_LoadingFlagsReturn ==
  /\ []CallbacksAlternate
  /\ [](isAnalyzing => <>(~isAnalyzing /\ Len(sbCallbacks) % 2 = 0))
  /\ [](isLoading => <>(~isLoading))
  /\ [](isForecastLoading => <>(~isForecastLoading))

\* all three kinds of request have settled, the Sidebar's with an error and
\* the modal's forecast with a response
C23_Witness ==
  /\ Len(sbCallbacks) >= 2 /\ sbCallbacks[2] = "onAnalysisError" /\ ~isAnalyzing
  /\ lastOp = "forecastFulfilled" /\ ~isLoading /\ ~isForecastLoading

\* C24: the status of the AI panel moves only idle to loading, loading to
\* success, loading to error and error to loading; whenever status is
\* 'success', reportData is set and the first chatHistory entry is the
\* assistant's report; and at most one chat request is in flight.
C24_PanelStatusMachine ==
  /\ [][apStatus' # apStatus =>
          <<apStatus, apStatus'>> \in {<<"idle", "loading">>, <<"loading", "success">>,
                                       <<"loading", "error">>, <<"error", "loading">>}]_vars
  /\ [](apStatus = "success" =>
          /\ reportData # Null
          /\ Len(chatHistory) >= 1
          /\ chatHistory[1] = [role |-> "assistant", content |-> reportData[1].report_markdown])
  /\ [](apChats <= 1)

\* a report was generated on a retry, one question was answered and the
\* next is in flight
C24_Witness ==
  /\ apStatus = "success" /\ apChats = 1 /\ isChatLoading
  /\ Len(chatHistory) = 4 /\ chatHistory[3].role = "assistant"

\* C25: when a login called in a logged-out state resolves, its outcome agrees with the auth state:
\* success is true exactly when isAuthenticated is true with user set, and
\* when success is false no access token is left in localStorage.  Not a
\* property of the code: a login whose /me request is answered not-ok
\* resolves with success although nobody is authenticated, and one whose /me
\* request rejects resolves without success and leaves the token stored.
C25_LoginOutcomeAgrees ==
  [][(loginPending.loggedOut /\ loginPending' = NoLogin /\ loginResult' # Null) =>
       /\ loginResult'[1].success = (isAuthenticated' /\ auUser' # Null)
       /\ (~loginResult'[1].success => lsAccessToken' = Null)]_vars

\* C26: after a successful login, handleCreateZones called with an analysis
\* id or a field id sends the zones request with the bearer token login
\* stored.  Not a property of the code: login stores the token under
\* 'access_token' and handleCreateZones reads 'token'.
C26_ZonesRequestCarriesLoginToken ==
  [][(/\ LoggedIn /\ lsAccessToken # Null
      /\ (fzAnalysisId # Null \/ fzFieldId # Null)
      /\ ~fzLoading
      /\ <<fzLoading', fzError', fzRequests'>> # <<fzLoading, fzError, fzRequests>>) =>
       /\ Len(fzRequests') = Len(fzRequests) + 1
       /\ fzRequests'[Len(fzRequests')].token = lsAccessToken]_vars

\* C27: protected pages are rendered only while isAuthenticated is true and
\* the AuthPage only while it is false; after a logout or a 401 reload no
\* protected page is rendered (until a login is started).  Not an invariant:
\* the session check of the mount effect may settle after a login and a
\* logout, and then authenticates again.
C27_PagesFollowAuth ==
  /\ (auPage \in ProtectedPages => isAuthenticated)
  /\ (auPage = "AuthPage" => ~isAuthenticated)
  /\ (auSignedOut => auPage \notin ProtectedPages)

====
